---- MODULE Spec2Model ----
(***************************************************************************)
(* SENTINEL-DISK Pro: the telemetry-to-decision pipeline.                  *)
(*                                                                         *)
(* Units.  Python floats are modelled in exact decimal fixed point:        *)
(*   health scores            whole points (0..100)                        *)
(*   HEALTH_DROP_THRESHOLD    tenths of a point   (5 -> 50, 3.0 -> 30)     *)
(*   failure probabilities    1e-4                (0.35 -> 3500)           *)
(*   compression potentials   1e-4                (round(.., 4))           *)
(*   write reductions         1e-3                (round(.., 3))           *)
(*   "NN.N%" strings          tenths of a percent ("18.3%" -> 183)         *)
(*   day counts with one decimal   tenths of a day (round(.., 1))          *)
(* round(x, k) of a float is the nearest k-decimal value; on a decimal tie *)
(* the binary value of the float decides, so a tie yields either           *)
(* neighbour (RoundNearest returns both).                                  *)
(***************************************************************************)
EXTENDS Integers, Sequences, FiniteSets, TLC

VARIABLES
    app_settings,           \* main.app_settings (the settings the core reads)
    HEALTH_DROP_THRESHOLD,  \* coordinator attribute, tenths of a point
    intervention_log,       \* coordinator.intervention_log (in memory)
    ledger_file,            \* data/intervention_log.json
    health_cache,           \* data/health_cache_<drive_id>.json, per drive
    response,               \* what the last request returned (<<>> before any)
    cycle,                  \* trace of the last run_cycle: what it read and called
    life_calls,             \* the latest life-extension calls: arguments and results
    wr_call,                \* the last calculate_write_reduction call and its result
    system,                 \* platform.system() of the host
    acq_pc,                 \* where the current get_all_drives call stands
    acq_mode,               \* its forced_mode argument
    attempted,              \* the strategies it has run: name, outcome, list yielded
    drives_out,             \* <<list>> once it has returned, <<>> before
    now,                    \* time.time(), in seconds since the process started
    enumerated,             \* smart_5 of each drive get_all_drives would list now
    history_cache,          \* SMARTReader._history_cache: key -> (cached_at, history)
    last_call,              \* per key, the last get_smart_history call and its output
    predicted,              \* <<length>> of the sequence predict last prepared
    engine_pc,              \* "new" until HealthPredictionEngine() is constructed
    model,                  \* self.model: "loaded" or None
    norm_params,            \* self.norm_params: "loaded" or None
    model_failed,           \* the model path has failed in this process
    last_prediction,        \* <<the last prediction call and what it returned>>
    predict_calls,          \* prediction calls made so far
    scan_pc,                \* _scan_filesystem: "walking" files or "done"
    scanned,                \* how many files of each size the walk has visited
    top_files_heap,         \* the heap's entries: how many of each size
    file_histogram,         \* result["file_histogram"] (sizes), <<>> before
    scan_cache,             \* CompressionEngine._scan_cache entry of the root set
    analyze_pc,             \* per thread: where its analyze_filesystem call stands
    analyze_scan,           \* per thread: the scan its call is making or made
    analyze_call,           \* per thread: its last finished call and its result
    invalidations,          \* invalidate_cache() calls that have returned
    scans_started,          \* _scan_filesystem calls started
    worker_log,             \* per worker process: coordinator.intervention_log
    worker_up,              \* per worker process: its coordinator is constructed
    shared_ledger,          \* data/intervention_log.json, shared by the workers
    recorded,               \* every record _record_intervention has returned
    reader_pc,              \* per thread: where its get_smart_history call stands
    reader_call             \* per thread: the call (key, start, history returned)

coordVars == <<app_settings, HEALTH_DROP_THRESHOLD, intervention_log,
               ledger_file, health_cache, response, cycle>>

lifeVars == <<life_calls>>

wrVars == <<wr_call>>

acqVars == <<system, acq_pc, acq_mode, attempted, drives_out>>

histVars == <<now, enumerated, history_cache, last_call, predicted>>

predVars == <<engine_pc, model, norm_params, model_failed, last_prediction,
              predict_calls>>

scanVars == <<scan_pc, scanned, top_files_heap, file_histogram>>

fsVars == <<scan_cache, analyze_pc, analyze_scan, analyze_call, invalidations,
            scans_started>>

ledgerVars == <<worker_log, worker_up, shared_ledger, recorded>>

readerVars == <<reader_pc, reader_call>>

vars == <<coordVars, lifeVars, wrVars, acqVars, histVars, predVars, scanVars,
          fsVars, ledgerVars, readerVars>>

\* what a step of one part leaves alone: the variables of the other parts
notCoord == <<lifeVars, wrVars, acqVars, histVars, predVars,
              scanVars, fsVars, ledgerVars, readerVars>>

notLife == <<coordVars, wrVars, acqVars, histVars, predVars,
             scanVars, fsVars, ledgerVars, readerVars>>

notWr == <<coordVars, lifeVars, acqVars, histVars, predVars,
           scanVars, fsVars, ledgerVars, readerVars>>

notAcq == <<coordVars, lifeVars, wrVars, histVars, predVars,
            scanVars, fsVars, ledgerVars, readerVars>>

notHist == <<coordVars, lifeVars, wrVars, acqVars, predVars,
             scanVars, fsVars, ledgerVars, readerVars>>

notPred == <<coordVars, lifeVars, wrVars, acqVars, histVars,
             scanVars, fsVars, ledgerVars, readerVars>>

notScan == <<coordVars, lifeVars, wrVars, acqVars, histVars, predVars,
             fsVars, ledgerVars, readerVars>>

notFs == <<coordVars, lifeVars, wrVars, acqVars, histVars, predVars,
           scanVars, ledgerVars, readerVars>>

notLedger == <<coordVars, lifeVars, wrVars, acqVars, histVars, predVars,
               scanVars, fsVars, readerVars>>

\* the readers share the history cache: their steps leave the rest alone
notReader == <<coordVars, lifeVars, wrVars, acqVars, predVars,
               scanVars, fsVars, ledgerVars>>

None == "None"            \* Python's None where the other values are strings

NoHealth == 0 - 1         \* no health_cache file for the drive (None)

(***************************************************************************)
(* Bounds of the model and program constants.                              *)
(***************************************************************************)
MaxLedger == 2                      \* ledger records per run
MaxLifeCalls == 2                   \* life-extension calls kept in life_calls
MaxTime == 450                      \* seconds a run of the history cache lasts
MaxPredictCalls == 3                \* prediction calls per run
MaxFiles == 52                      \* files one scan visits
MaxScans == 3                       \* scans started per run of the scan cache
MaxInvalidations == 2               \* invalidate_cache calls per run
MaxRecords == 3                     \* records the workers append per run
MaxReaderCalls == 2                 \* get_smart_history calls per thread
MaxCycles == 2                      \* whole cycles per run

CACHE_DURATION_SECONDS == 300       \* smart_reader.py
SEQUENCE_LENGTH == 30               \* health_engine.py
ONE_MIB == 1048576                  \* 1024 * 1024, compression_engine.py
TOP_FILES == 50                     \* entries kept in top_files_heap

ClassDropThreshold == 50            \* HEALTH_DROP_THRESHOLD = 5, in tenths
MIN_COMPRESSION_POTENTIAL == 2000   \* 0.20
DefaultHealthThreshold == 50        \* DEFAULT_SETTINGS["health_threshold"]

Drives == {"DRIVE_A", "DRIVE_C"}
Trends == {"improving", "stable", "declining", "rapid_decline"}
Modes == {"normal", "conservative", "aggressive", "emergency"}

\* values POST /api/v1/settings may store in app_settings["health_threshold"]
HealthThresholdSet == {30, DefaultHealthThreshold}

(***************************************************************************)
(* Rounding.                                                               *)
(***************************************************************************)
Abs(x) == IF x < 0 THEN -x ELSE x

Max2(a, b) == IF a >= b THEN a ELSE b

Min2(a, b) == IF a <= b THEN a ELSE b

\* round(x / q) for q > 0: the nearest integers (both neighbours on a tie)
RoundNearest(x, q) ==
    {n \in {x \div q, (x \div q) + 1} : 2 * Abs(n * q - x) <= q}

(***************************************************************************)
(* Health predictor: the maps from a failure probability (1e-4 units) to   *)
(* the fields of an assessment.                                            *)
(***************************************************************************)
\* max(0, min(100, int((1 - failure_probability) * 100)))
health_score_of(prob) == Max2(0, Min2(100, (10000 - prob) \div 100))

probability_to_days(prob) ==
    LET center == IF prob >= 9500 THEN 3
                  ELSE IF prob >= 9000 THEN 7
                  ELSE IF prob >= 8000 THEN 14
                  ELSE IF prob >= 7000 THEN 21
                  ELSE IF prob >= 6000 THEN 45
                  ELSE IF prob >= 5000 THEN 62
                  ELSE IF prob >= 4000 THEN 90
                  ELSE IF prob >= 3000 THEN 120
                  ELSE IF prob >= 2000 THEN 180
                  ELSE IF prob >= 1000 THEN 270
                  ELSE 365
        margin == Max2(3, (center * 20) \div 100)
    IN  [center |-> center, lower |-> Max2(1, center - margin), upper |-> center + margin]

get_risk_level(prob) ==
    IF prob >= 7000 THEN "Critical"
    ELSE IF prob >= 5000 THEN "High"
    ELSE IF prob >= 3000 THEN "Medium"
    ELSE "Low"

\* the assessment _rule_based_predict builds from its failure probability and trend
rule_based_assessment(prob, trend) ==
    [failure_probability |-> prob,
     health_score |-> health_score_of(prob),
     risk_level |-> get_risk_level(prob),
     days_to_failure |-> probability_to_days(prob).center,
     confidence_interval |-> probability_to_days(prob),
     trend |-> trend,
     intervention_recommended |-> prob > 3000,
     model_version |-> "rule_based_fallback"]

\* (failure probability, trend) pairs the coordinator is run on
CoordCases == {<<500, "stable">>, <<3500, "declining">>, <<7000, "rapid_decline">>}

\* the cycles run: DRIVE_A through every case, DRIVE_C (the failing drive of
\* the synthetic set) in its critical state
CoordCycles ==
    {<<"DRIVE_A", rule_based_assessment(c[1], c[2])>> : c \in CoordCases}
    \cup {<<"DRIVE_C", rule_based_assessment(7000, "rapid_decline")>>}

\* compression potentials analyze_filesystem reports to the coordinator
CoordPotentials == {1500, 2000, 2050}

(***************************************************************************)
(* Compression engine: calculate_write_reduction.                          *)
(***************************************************************************)
\* mode_map: maximum reduction of a mode, in percent
max_reduction_of(mode) ==
    CASE mode = "normal" -> 20
      [] mode = "conservative" -> 40
      [] mode = "aggressive" -> 60
      [] mode = "emergency" -> 80

\* variant: exclusive lower bounds
select_mode_exclusive(health_score, override_mode) ==
    IF override_mode # None /\ override_mode # "" /\ override_mode \in Modes
    THEN override_mode
    ELSE IF health_score > 80 THEN "normal"
    ELSE IF health_score > 60 THEN "conservative"
    ELSE IF health_score > 40 THEN "aggressive"
    ELSE "emergency"

\* the mode chosen from the health score and the override ("" and None are falsy)
select_mode(health_score, override_mode) ==
    IF override_mode # None /\ override_mode # "" /\ override_mode \in Modes
    THEN override_mode
    ELSE IF health_score >= 80 THEN "normal"
    ELSE IF health_score >= 60 THEN "conservative"
    ELSE IF health_score >= 40 THEN "aggressive"
    ELSE "emergency"

\* min(compression_potential * 0.6, max_reduction * 0.7), in 1e-5
direct_reduction(potential, max_reduction) ==
    Min2(potential * 6, max_reduction * 700)

\* min(max_reduction * 0.3, 0.20), in 1e-5
batching_bonus(max_reduction) == Min2(max_reduction * 300, 20000)

\* the values round(total_reduction, 3) can take, in 1e-3
total_write_reduction(health_score, potential, override_mode) ==
    LET mx == max_reduction_of(select_mode(health_score, override_mode))
    IN  RoundNearest(direct_reduction(potential, mx) + batching_bonus(mx), 100)

\* f"{write_reduction*100:.1f}%": the text "II.D%" as <<II, D>>
format_pct(write_reduction) == <<write_reduction \div 10, write_reduction % 10>>

\* float(s.replace("%", "")), in tenths of a percent
parse_pct(text) == text[1] * 10 + text[2]

\* health scores around every breakpoint
WrHealthSet == {0, 25, 39, 40, 55, 59, 60, 75, 79, 80, 95, 100}

\* compression potentials in [0, 1], in 1e-4
WrPotentialSet == {0, 2000, 2025, 5000, 9334, 10000}

\* override_mode arguments: None, "", the modes, "auto" and an unknown name
WrOverrideSet == {None, "", "auto", "turbo"} \cup Modes

\* CompressionEngine.calculate_write_reduction(health_score,
\* compression_potential, override_mode)
calculate_write_reduction(health_score, compression_potential, override_mode) ==
    LET mode == select_mode(health_score, override_mode)
        mx == max_reduction_of(mode)
    IN  \E direct \in RoundNearest(direct_reduction(compression_potential, mx), 100) :
        \E bonus \in RoundNearest(batching_bonus(mx), 100) :
        \E total \in total_write_reduction(health_score, compression_potential,
                                           override_mode) :
          /\ wr_call' = <<[health_score_input |-> health_score,
                        compression_potential_input |-> compression_potential,
                        override_mode |-> override_mode,
                        mode |-> mode,
                        max_reduction_target |-> mx,
                        direct_reduction |-> direct,
                        batching_bonus |-> bonus,
                        total_write_reduction |-> total,
                        total_write_reduction_pct |-> format_pct(total)]>>
          /\ UNCHANGED notWr

WrIdle == wr_call = <<>>

WrNext ==
    \E h \in WrHealthSet, c \in WrPotentialSet, o \in WrOverrideSet :
        calculate_write_reduction(h, c, o)

(***************************************************************************)
(* Coordinator.                                                            *)
(***************************************************************************)
\* the body of _should_intervene, reading threshold for self.HEALTH_DROP_THRESHOLD
intervene_at(threshold, health, drop, trend, recommended) ==
    IF health < 50 THEN TRUE
    ELSE IF drop * 10 >= threshold THEN TRUE
    ELSE IF trend = "rapid_decline" THEN TRUE
    ELSE IF recommended /\ drop >= 2 THEN TRUE
    ELSE FALSE

\* coordinator._should_intervene(health, drop, trend, recommended) in a state
should_intervene(health, drop, trend, recommended) ==
    intervene_at(HEALTH_DROP_THRESHOLD, health, drop, trend, recommended)

\* variant: a coefficient of 0.5
days_gained_half(baseline_days, write_reduction) ==
    RoundNearest(baseline_days * 5 * write_reduction, 1000)

\* _calculate_life_extension: the values round(days_gained, 1) can take, in
\* tenths of a day; days_gained = baseline * (1 + wr * 0.4) - baseline
days_gained_of(baseline_days, write_reduction) ==
    RoundNearest(baseline_days * 4 * write_reduction, 1000)

\* round(extended_days, 1), in tenths of a day
extended_days_of(baseline_days, write_reduction) ==
    RoundNearest(baseline_days * 10000 + baseline_days * 4 * write_reduction, 1000)

\* the clauses _get_trigger_reason joins; none gives "Preventive optimization"
get_trigger_reason(health_drop, trend, health) ==
    LET reasons == (IF health < 50 THEN {"Health critical"} ELSE {})
             \cup (IF health_drop >= 5 THEN {"Health dropped"} ELSE {})
             \cup (IF trend = "rapid_decline" THEN {"Rapid health decline detected"}
                   ELSE IF trend = "declining" THEN {"Consistent health decline trend"}
                   ELSE {})
    IN  IF reasons # {} THEN reasons ELSE {"Preventive optimization"}

\* variant: the ledger is not filtered by drive
all_interventions(log, drive_id) == log

\* [i for i in self.intervention_log if i["drive_id"] == drive_id]
drive_interventions(log, drive_id) ==
    SelectSeq(log, LAMBDA i : i.drive_id = drive_id)

RECURSIVE SumDays(_)
SumDays(recs) ==
    IF recs = <<>> THEN 0
    ELSE Head(recs).life_extended_days + SumDays(Tail(recs))

RECURSIVE SumPct(_)
SumPct(recs) ==
    IF recs = <<>> THEN 0
    ELSE parse_pct(Head(recs).write_reduction_pct) + SumPct(Tail(recs))

\* the results get_cumulative_impact can return for a ledger
get_cumulative_impact(log, drive_id) ==
    LET mine == drive_interventions(log, drive_id)
    IN  {[total_interventions |-> Len(mine),
          total_days_extended |-> SumDays(mine),
          average_write_reduction_pct |-> avg,
          interventions |-> mine,
          last_intervention |-> IF mine # <<>> THEN <<mine[Len(mine)]>> ELSE <<>>]
         : avg \in RoundNearest(SumPct(mine), Max2(1, Len(mine)))}

\* _get_previous_health / the truthiness test of run_cycle
health_drop_of(previous_health, current_health) ==
    IF previous_health # NoHealth /\ previous_health # 0
    THEN previous_health - current_health
    ELSE 0

\* variant: the minimum potential itself is refused
meets_min_potential_strict(potential) == potential > MIN_COMPRESSION_POTENTIAL

\* compression_potential >= self.MIN_COMPRESSION_POTENTIAL
meets_min_potential(potential) == potential >= MIN_COMPRESSION_POTENTIAL

\* variant: the newest record is put first
prepend_record(log, intervention) == <<intervention>> \o log

\* self.intervention_log.append(intervention)
append_record(log, intervention) == Append(log, intervention)

\* _save_intervention_log: the whole in-memory list is dumped over the file
save_intervention_log(log) == log

\* variant: one health file shared by all drives
save_current_health_shared(cache, drive_id, health_score) ==
    [e \in DOMAIN cache |-> health_score]

\* _save_current_health: one file per drive id
save_current_health(cache, drive_id, health_score) ==
    [cache EXCEPT ![drive_id] = health_score]

\* run_cycle(drive_id) on the assessment predict returned; the compression
\* potential is what analyze_filesystem reports if it is called.  The caller
\* fixes HEALTH_DROP_THRESHOLD' first: the predicate reads the attribute as it
\* is when run_cycle runs.
run_cycle(drive_id, prediction, potential) ==
    LET current_health == prediction.health_score
        previous_health == health_cache[drive_id]
        health_drop == health_drop_of(previous_health, current_health)
        should == intervene_at(HEALTH_DROP_THRESHOLD', current_health, health_drop,
                               prediction.trend,
                               prediction.intervention_recommended)
        records == should /\ meets_min_potential(potential)
    IN  /\ records => Len(intervention_log) < MaxLedger
        /\ \E wr \in total_write_reduction(current_health, potential, None) :
           \E gained \in days_gained_of(prediction.days_to_failure, wr) :
             LET intervention ==
                    [id |-> now,
                     drive_id |-> drive_id,
                     reason |-> get_trigger_reason(health_drop, prediction.trend,
                                                   current_health),
                     health_score_at_trigger |-> current_health,
                     compression_mode |-> select_mode(current_health, None),
                     write_reduction_pct |-> format_pct(wr),
                     life_extended_days |-> gained,
                     status |-> "active"]
                 log_after == IF records
                              THEN append_record(intervention_log, intervention)
                              ELSE intervention_log
             IN  /\ intervention_log' = log_after
                 /\ ledger_file' = IF records THEN save_intervention_log(log_after)
                                    ELSE ledger_file
                 /\ health_cache' = save_current_health(health_cache, drive_id,
                                                        current_health)
                 /\ \E cumulative \in get_cumulative_impact(log_after, drive_id) :
                      response' = <<[kind |-> "status",
                                 drive_id |-> drive_id,
                                 health |-> prediction,
                                 health_drop_detected |-> health_drop,
                                 intervention_triggered |-> should,
                                 current_mode |-> IF records
                                                  THEN intervention.compression_mode
                                                  ELSE "monitoring",
                                 intervention |-> IF records THEN <<intervention>>
                                                  ELSE <<>>,
                                 cumulative_impact |-> cumulative,
                                 system_status |-> IF should THEN "active"
                                                   ELSE "monitoring"]>>
                 /\ cycle' = <<[drive_id |-> drive_id,
                               previous_health |-> previous_health,
                               current_health |-> current_health,
                               analyzer_called |-> should,
                               potential |-> IF should THEN potential
                                             ELSE NoHealth]>>

(***************************************************************************)
(* HTTP layer (main.py): the requests that reach the coordinator.          *)
(***************************************************************************)
\* POST /api/v1/settings with a health_threshold
update_settings(value) ==
    /\ app_settings' = [app_settings EXCEPT !.health_threshold = value]
    /\ UNCHANGED <<HEALTH_DROP_THRESHOLD, intervention_log, ledger_file,
                   health_cache, response, cycle>>
    /\ UNCHANGED notCoord

\* GET /api/v1/drive/{drive_id}/status
get_drive_status(drive_id, prediction, potential) ==
    /\ HEALTH_DROP_THRESHOLD' = app_settings.health_threshold
    /\ run_cycle(drive_id, prediction, potential)
    /\ UNCHANGED app_settings
    /\ UNCHANGED notCoord

\* the other callers of coordinator.run_cycle: the urgency and optimize
\* endpoints, POST /api/v1/simulate/run-cycle and the start-up loop
run_simulation_cycle(drive_id, prediction, potential) ==
    /\ UNCHANGED <<app_settings, HEALTH_DROP_THRESHOLD>>
    /\ run_cycle(drive_id, prediction, potential)
    /\ UNCHANGED notCoord

\* GET /api/v1/drive/{drive_id}/interventions
get_drive_interventions(drive_id) ==
    /\ \E result \in get_cumulative_impact(intervention_log, drive_id) :
         response' = <<[kind |-> "impact", drive_id |-> drive_id,
                        cumulative_impact |-> result]>>
    /\ UNCHANGED <<app_settings, HEALTH_DROP_THRESHOLD, intervention_log,
                   ledger_file, health_cache, cycle>>
    /\ UNCHANGED notCoord

\* the coordinator as constructed on an empty data directory
CoordStart ==
    /\ HEALTH_DROP_THRESHOLD = ClassDropThreshold
    /\ intervention_log = <<>>
    /\ ledger_file = <<>>
    /\ health_cache = [d \in Drives |-> NoHealth]
    /\ response = <<>>
    /\ cycle = <<>>

\* load_settings: the stored settings, or DEFAULT_SETTINGS
CoordInit ==
    /\ app_settings \in [health_threshold : HealthThresholdSet]
    /\ CoordStart

CoordIdle ==
    /\ app_settings = [health_threshold |-> DefaultHealthThreshold]
    /\ CoordStart

(***************************************************************************)
(* Life extension: InterventionCoordinator._calculate_life_extension and   *)
(* models.coordinator.calculate_life_extension, called on their own.       *)
(* Results are kept in tenths of a day for both.                           *)
(***************************************************************************)
BaselineSet == {0, 45, 100, 120}

\* write-reduction rates in 1e-3: 0, 0.025, 0.18, 0.5, 1
RateSet == {0, 25, 180, 500, 1000}

\* round(baseline * (1 + rate * 0.4)) in whole days; baseline itself when <= 0
module_extended_days(baseline_remaining_days, write_reduction_rate) ==
    IF baseline_remaining_days <= 0 THEN {baseline_remaining_days}
    ELSE RoundNearest(baseline_remaining_days * 10000
                      + baseline_remaining_days * 4 * write_reduction_rate, 10000)

\* days_gained = extended_days - baseline_remaining_days; 0 when baseline <= 0
module_days_gained(baseline_remaining_days, extended_days) ==
    IF baseline_remaining_days <= 0 THEN 0
    ELSE extended_days - baseline_remaining_days

\* a pure function returns what it returned before for the same arguments
same_call(impl, b, r) ==
    {i \in 1..Len(life_calls) : /\ life_calls[i].impl = impl
                                /\ life_calls[i].baseline_days = b
                                /\ life_calls[i].write_reduction = r}

remember_call(call) ==
    /\ life_calls' = IF Len(life_calls) < MaxLifeCalls
                     THEN Append(life_calls, call)
                     ELSE Append(Tail(life_calls), call)
    /\ UNCHANGED notLife

\* coordinator._calculate_life_extension(baseline_days, write_reduction)
coordinator_calculate_life_extension(baseline_days, write_reduction) ==
    \E ext \in extended_days_of(baseline_days, write_reduction) :
       \E gained \in days_gained_of(baseline_days, write_reduction) :
         LET call == [impl |-> "coordinator",
                      baseline_days |-> baseline_days,
                      write_reduction |-> write_reduction,
                      extended_days |-> ext,
                      days_gained |-> gained]
             seen == same_call("coordinator", baseline_days, write_reduction)
         IN  /\ \A i \in seen : life_calls[i] = call
             /\ remember_call(call)

\* models.coordinator.calculate_life_extension(baseline, rate)
calculate_life_extension(baseline_remaining_days, write_reduction_rate) ==
    \E ext \in module_extended_days(baseline_remaining_days, write_reduction_rate) :
         LET call == [impl |-> "module",
                      baseline_days |-> baseline_remaining_days,
                      write_reduction |-> write_reduction_rate,
                      extended_days |-> ext * 10,
                      days_gained |->
                          module_days_gained(baseline_remaining_days, ext) * 10]
             seen == same_call("module", baseline_remaining_days,
                               write_reduction_rate)
         IN  /\ \A i \in seen : life_calls[i] = call
             /\ remember_call(call)

LifeIdle == life_calls = <<>>

LifeNext ==
    \/ \E b \in BaselineSet, r \in RateSet :
         coordinator_calculate_life_extension(b, r)
    \/ \E b \in BaselineSet, r \in RateSet : calculate_life_extension(b, r)

\* baselines of zero and fewer days
NonPositiveBaselines == {0, 0 - 1, 0 - 10, 0 - 365}

\* the two computations called with such baselines
ClampNext ==
    \/ \E b \in NonPositiveBaselines, r \in RateSet :
         coordinator_calculate_life_extension(b, r)
    \/ \E b \in NonPositiveBaselines, r \in RateSet :
         calculate_life_extension(b, r)

(***************************************************************************)
(* Telemetry acquisition (smart_reader.py): get_all_drives and the         *)
(* per-platform readers.  A strategy run is one step; its outcome is what  *)
(* the host does to it.                                                    *)
(***************************************************************************)
Systems == {"Linux", "Darwin", "Windows", "FreeBSD"}

\* forced_mode arguments: the default, the two settings values and any other
ForcedModes == {"auto", "simulated", "real"}

\* what can happen to a strategy: the tool or package is missing, the
\* enumeration exits non-zero, its output does not parse, it lists no device,
\* every per-device read fails, an error strikes after a device was read, or
\* all goes well
Outcomes == {"tool_missing", "nonzero_exit", "malformed_output",
             "empty_enumeration", "reads_fail", "late_error", "ok"}

\* variant: a record filled with the neutral default attributes is labelled
\* synthetic
drive_labelling_defaults(drive_id, source, smart_passed, smart_values) ==
    [drive_id |-> drive_id, is_simulated |-> (smart_values = "default"),
     source |-> source, smart_passed |-> smart_passed,
     smart_values |-> smart_values]

\* a device record; source is "none" where the reader sets no such field, and
\* smart_passed is the text of the Python value
drive(drive_id, source, smart_passed, smart_values) ==
    [drive_id |-> drive_id, is_simulated |-> FALSE, source |-> source,
     smart_passed |-> smart_passed, smart_values |-> smart_values]

get_simulated_drives ==
    <<[drive_id |-> "DRIVE_A", is_simulated |-> TRUE, source |-> "none",
       smart_passed |-> "True", smart_values |-> "read"],
      [drive_id |-> "DRIVE_B", is_simulated |-> TRUE, source |-> "none",
       smart_passed |-> "True", smart_values |-> "read"],
      [drive_id |-> "DRIVE_C", is_simulated |-> TRUE, source |-> "none",
       smart_passed |-> "False", smart_values |-> "read"]>>

\* the lists _read_smartctl can build for one disk: smart_status.passed, or
\* True when the tool reports none
smartctl_lists(drive_id, source) ==
    {<<drive(drive_id, source, passed, "read")>> : passed \in {"True", "False"}}

\* _try_smartctl_windows: [] unless a device was read; an empty scan probes
\* /dev/pd0..3, which may or may not answer
try_smartctl_windows_result(outcome) ==
    CASE outcome = "ok" -> smartctl_lists("_dev_sda", "smartctl_windows")
      [] outcome = "empty_enumeration" ->
            {<<>>} \cup smartctl_lists("_dev_pd0", "smartctl_windows")
      [] OTHER -> {<<>>}

\* _try_wmi_windows: disks are listed even when the SMART queries fail
try_wmi_windows_result(outcome) ==
    CASE outcome = "ok" -> {<<drive("PHYSICALDRIVE0", "wmi", "True", "read")>>}
      [] outcome = "reads_fail" ->
            {<<drive("PHYSICALDRIVE0", "wmi", "True", "default")>>}
      [] OTHER -> {<<>>}

\* _try_ctypes_windows: a drive whose property query failed is skipped, an
\* error on a later drive keeps the earlier ones
try_ctypes_windows_result(outcome) ==
    CASE outcome = "ok" ->
            {<<drive("PhysicalDrive0", "ctypes_deviceiocontrol", "True", v)>>
               : v \in {"read", "default"}}
      [] outcome = "late_error" ->
            {<<drive("PhysicalDrive0", "ctypes_deviceiocontrol", "True", "default")>>}
      [] OTHER -> {<<>>}

\* _try_wmic_basic_windows: identity only, default attributes
try_wmic_basic_windows_result(outcome) ==
    CASE outcome \in {"ok", "reads_fail"} ->
            {<<drive("PHYSICALDRIVE0", "wmic_basic", "True", "default")>>}
      [] OTHER -> {<<>>}

\* the drives _get_drives_linux has collected when it reaches its last line;
\* any exception and a failing lsblk return the simulated set at once
get_drives_linux_found(outcome) ==
    CASE outcome = "ok" -> smartctl_lists("_dev_sda", "none")
      [] OTHER -> {<<>>}

\* the drives _get_drives_macos has collected: a disk whose SMART read fails
\* is kept (verified for Apple media, unknown otherwise), and an exception
\* after a disk was read keeps that disk
get_drives_macos_found(outcome) ==
    CASE outcome = "ok" -> smartctl_lists("disk0", "none")
      [] outcome = "late_error" -> smartctl_lists("disk0", "none")
      [] outcome = "reads_fail" ->
            {<<>>} \cup {<<drive("disk0", "none", passed, "empty")>>
                          : passed \in {"True", "None"}}
      [] OTHER -> {<<>>}

\* variant: the reader returns what it collected, even nothing
no_fallback(drives) == drives

\* drives if drives else self._get_simulated_drives()
fallback_if_empty(drives) ==
    IF drives # <<>> THEN drives ELSE get_simulated_drives

\* variant: the management API is passed over
layer_after_skipping(layer) ==
    CASE layer = "layer1" -> "layer3"
      [] layer = "layer2" -> "layer3"
      [] layer = "layer3" -> "layer4"
      [] layer = "layer4" -> "exhausted"

\* the order of the layers in _get_drives_windows
layer_after(layer) ==
    CASE layer = "layer1" -> "layer2"
      [] layer = "layer2" -> "layer3"
      [] layer = "layer3" -> "layer4"
      [] layer = "layer4" -> "exhausted"

\* get_all_drives(forced_mode) up to the call of the platform's reader
get_all_drives(forced_mode) ==
    /\ acq_pc \in {"idle", "done"}
    /\ acq_mode' = forced_mode
    /\ attempted' = <<>>
    /\ IF forced_mode = "simulated"
       THEN acq_pc' = "done" /\ drives_out' = <<get_simulated_drives>>
       ELSE IF system = "Linux" THEN acq_pc' = "linux" /\ drives_out' = <<>>
       ELSE IF system = "Darwin" THEN acq_pc' = "macos" /\ drives_out' = <<>>
       ELSE IF system = "Windows" THEN acq_pc' = "layer1" /\ drives_out' = <<>>
       ELSE acq_pc' = "done" /\ drives_out' = <<get_simulated_drives>>
    /\ UNCHANGED system
    /\ UNCHANGED notAcq

\* one layer of _get_drives_windows: run it, return its drives if any, else
\* go on; after the last layer return the simulated set
windows_layer(layer, strategy, yielded, outcome) ==
    /\ acq_pc = layer
    /\ attempted' = Append(attempted, [strategy |-> strategy, outcome |-> outcome,
                                       yielded |-> yielded])
    /\ IF yielded # <<>>
       THEN acq_pc' = "done" /\ drives_out' = <<yielded>>
       ELSE IF layer_after(layer) = "exhausted"
       THEN acq_pc' = "done" /\ drives_out' = <<get_simulated_drives>>
       ELSE acq_pc' = layer_after(layer) /\ drives_out' = <<>>
    /\ UNCHANGED <<system, acq_mode>>
    /\ UNCHANGED notAcq

try_smartctl_windows(outcome) ==
    \E y \in try_smartctl_windows_result(outcome) :
        windows_layer("layer1", "smartctl", y, outcome)

try_wmi_windows(outcome) ==
    \E y \in try_wmi_windows_result(outcome) :
        windows_layer("layer2", "wmi", y, outcome)

try_ctypes_windows(outcome) ==
    \E y \in try_ctypes_windows_result(outcome) :
        windows_layer("layer3", "ctypes", y, outcome)

try_wmic_basic_windows(outcome) ==
    \E y \in try_wmic_basic_windows_result(outcome) :
        windows_layer("layer4", "wmic_basic", y, outcome)

\* _get_drives_linux and _get_drives_macos: one strategy, then the fallback
single_reader(pc, strategy, found, outcome) ==
    /\ acq_pc = pc
    /\ attempted' = <<[strategy |-> strategy, outcome |-> outcome,
                       yielded |-> found]>>
    /\ acq_pc' = "done"
    /\ drives_out' = <<fallback_if_empty(found)>>
    /\ UNCHANGED <<system, acq_mode>>
    /\ UNCHANGED notAcq

get_drives_linux(outcome) ==
    \E found \in get_drives_linux_found(outcome) :
        single_reader("linux", "smartctl", found, outcome)

get_drives_macos(outcome) ==
    \E found \in get_drives_macos_found(outcome) :
        single_reader("macos", "diskutil", found, outcome)

\* a reader on which get_all_drives has not been called
AcqStart ==
    /\ acq_pc = "idle"
    /\ acq_mode = "auto"
    /\ attempted = <<>>
    /\ drives_out = <<>>

AcqIdle == system = "Linux" /\ AcqStart

AcqNext ==
    \/ \E f \in ForcedModes : get_all_drives(f)
    \/ \E o \in Outcomes : try_smartctl_windows(o)
    \/ \E o \in Outcomes : try_wmi_windows(o)
    \/ \E o \in Outcomes : try_ctypes_windows(o)
    \/ \E o \in Outcomes : try_wmic_basic_windows(o)
    \/ \E o \in Outcomes : get_drives_linux(o)
    \/ \E o \in Outcomes : get_drives_macos(o)

(***************************************************************************)
(* History cache (smart_reader.get_smart_history) and the predictor's use  *)
(* of the list it returns.                                                 *)
(***************************************************************************)
HistDrives == {"DRIVE_A", "DRIVE_C"}

\* the (drive, days) requests made: the default window for both drives and
\* a short window
HistRequests == {<<"DRIVE_A", 30>>, <<"DRIVE_A", 5>>, <<"DRIVE_C", 30>>}

Absent == 0 - 1                     \* the drive is not in get_all_drives()

\* what get_all_drives can report for a drive: its smart_5 raw value, or
\* nothing; DRIVE_C stays as it is
Smart5Set(drive_id) ==
    IF drive_id = "DRIVE_A" THEN {Absent, 15, 87} ELSE {87}

\* seconds that pass between requests
TickSet == {150, 299}

\* f"{drive_id}_{days}"
cache_key(drive_id, days) == <<drive_id, days>>

HistKeys == {cache_key(r[1], r[2]) : r \in HistRequests}

\* rng.randint(-1, 2) of the generator seeded with hash(drive_id): a fixed
\* sequence per drive, here by position
noise(drive_id, day) ==
    ((day + (IF drive_id = "DRIVE_A" THEN 0 ELSE 1)) % 4) - 1

\* max(0, int(current_val * (1 - decay_factor * 0.8)) + noise)
past_val(drive_id, current_val, day, days) ==
    LET decayed == (current_val * (10 * days - 8 * day)) \div (10 * days)
    IN  Max2(0, Max2(0, decayed)
                + (IF current_val > 0 THEN noise(drive_id, day) ELSE 0))

\* the list built by get_smart_history, oldest day first; timestamp is
\* today - day, given as the pair of today and the day
generate_history(drive_id, current_val, days, today) ==
    [i \in 1..days |->
        [timestamp |-> <<today, days - i>>,
         smart_5 |-> past_val(drive_id, current_val, days - i, days)]]

\* _prepare_sequence: the last SEQUENCE_LENGTH entries, padded in front with
\* the earliest
prepare_sequence(smart_history) ==
    LET n == Len(smart_history)
        history == IF n > SEQUENCE_LENGTH
                   THEN SubSeq(smart_history, n - SEQUENCE_LENGTH + 1, n)
                   ELSE smart_history
        pad == SEQUENCE_LENGTH - Len(history)
    IN  [i \in 1..SEQUENCE_LENGTH |->
            IF i <= pad THEN history[1] ELSE history[i - pad]]

\* variant: the padding is inserted into the caller's list
padded_in_place(smart_history) ==
    IF Len(smart_history) >= 5 THEN prepare_sequence(smart_history)
    ELSE smart_history

\* the caller's list after predict(smart_history): the slice is a copy
history_after_predict(smart_history) == smart_history

\* time passes
Tick(dt) ==
    /\ now + dt <= MaxTime
    /\ now' = now + dt
    /\ UNCHANGED <<enumerated, history_cache, last_call, predicted>>
    /\ UNCHANGED notHist

\* the host's drives change: a value moves, a drive appears or disappears
enumeration_changes(drive_id, value) ==
    /\ enumerated[drive_id] # value
    /\ enumerated' = [enumerated EXCEPT ![drive_id] = value]
    /\ UNCHANGED <<now, history_cache, last_call, predicted>>
    /\ UNCHANGED notHist

\* get_smart_history(drive_id, days)
get_smart_history(drive_id, days) ==
    LET key == cache_key(drive_id, days)
        fresh == /\ history_cache[key] # <<>>
                 /\ now - history_cache[key][1].cached_at < CACHE_DURATION_SECONDS
        history == generate_history(drive_id, enumerated[drive_id], days, now)
    IN  /\ IF fresh
           THEN /\ last_call' = [last_call EXCEPT ![key] =
                      <<[at |-> now, output |-> history_cache[key][1].history,
                         served |-> "cached"]>>]
                /\ UNCHANGED history_cache
           ELSE IF enumerated[drive_id] = Absent
           THEN /\ last_call' = [last_call EXCEPT ![key] =
                      <<[at |-> now, output |-> <<>>, served |-> "not_found"]>>]
                /\ UNCHANGED history_cache
           ELSE /\ history_cache' = [history_cache EXCEPT ![key] =
                      <<[cached_at |-> now, history |-> history]>>]
                /\ last_call' = [last_call EXCEPT ![key] =
                      <<[at |-> now, output |-> history, served |-> "generated"]>>]
        /\ UNCHANGED <<now, enumerated, predicted>>
        /\ UNCHANGED notHist

\* health_engine.predict on the list a call for the key returned, which is
\* the list object held in the cache
predict(drive_id, days) ==
    LET key == cache_key(drive_id, days)
    IN  /\ history_cache[key] # <<>>
        /\ last_call[key] # <<>>
        /\ last_call[key][1].output = history_cache[key][1].history
        /\ history_cache' = [history_cache EXCEPT ![key] =
               <<[cached_at |-> history_cache[key][1].cached_at,
                  history |-> history_after_predict(history_cache[key][1].history)]>>]
        /\ predicted' = <<Len(prepare_sequence(history_cache[key][1].history))>>
        /\ UNCHANGED <<now, enumerated, last_call>>
        /\ UNCHANGED notHist

\* a reader whose cache is empty
HistStart ==
    /\ now = 0
    /\ history_cache = [k \in HistKeys |-> <<>>]
    /\ last_call = [k \in HistKeys |-> <<>>]
    /\ predicted = <<>>

HistIdle == enumerated = [d \in HistDrives |-> 87] /\ HistStart

HistNext ==
    \/ \E dt \in TickSet : Tick(dt)
    \/ \E d \in HistDrives : \E v \in Smart5Set(d) : enumeration_changes(d, v)
    \/ \E r \in HistRequests : get_smart_history(r[1], r[2])
    \/ \E r \in HistRequests : predict(r[1], r[2])

(***************************************************************************)
(* Health predictor (health_engine.py) and the second prediction entry     *)
(* point, models.health_model.compute_health_score, which the mounted      *)
(* status router calls.  An unrounded failure probability is kept in       *)
(* 1e-8 units (ProbUnit of them make 1e-4); temperatures are in tenths of  *)
(* a degree.  A quotient that is not a multiple of 1e-8 is cut there.      *)
(***************************************************************************)
ProbUnit == 10000

Null == 0 - 1             \* Python's None where the other values are numbers

\* the probability in 1e-4 units, cut and raised to the next unit
floor4(raw) == raw \div ProbUnit

ceil4(raw) == (raw + ProbUnit - 1) \div ProbUnit

FEATURE_KEYS ==
    {"smart_5", "smart_187", "smart_188", "smart_197", "smart_198", "smart_194"}

\* one day's "smart_values"
sample(s5, s187, s188, s197, s198, s194) ==
    [k \in FEATURE_KEYS |->
        CASE k = "smart_5" -> s5
          [] k = "smart_187" -> s187
          [] k = "smart_188" -> s188
          [] k = "smart_197" -> s197
          [] k = "smart_198" -> s198
          [] k = "smart_194" -> s194]

\* a history of n equal days
flat(n, day) == [i \in 1..n |-> day]

\* a history whose attribute key takes the given values, day by day
ramp(day, key, values) ==
    [i \in 1..Len(values) |-> [day EXCEPT ![key] = values[i]]]

healthy == sample(0, 0, 0, 0, 0, 350)

failing == sample(500, 40, 20, 80, 40, 600)

\* the histories predict is called on: empty and short ones with healthy
\* and failing values, and histories of 5 and more days whose failure
\* probability lies inside a tier, on a tier boundary and just below one
PredHistories ==
    {<<>>, flat(1, failing), flat(4, healthy), flat(4, failing),
     flat(5, healthy), flat(5, sample(1, 0, 0, 0, 0, 350)),
     flat(5, sample(0, 12, 0, 50, 0, 350)),
     flat(30, sample(60, 8, 0, 0, 0, 350)),
     flat(30, failing),
     ramp(sample(0, 0, 0, 0, 0, 350), "smart_5", <<0, 3, 6, 9, 12, 15, 18>>),
     ramp(sample(41, 0, 0, 0, 0, 402), "smart_197",
          <<0, 100, 253, 253, 253, 400, 513>>)}

\* what the model returns for a batch: a failure probability (1e-8 units)
\* or an exception
Raises == 0 - 2

\* model outputs during whole cycles
CycleInferences == {Raises, 65000000}

TcnOutputs == {0, 4000000, 12500000, 29996875, 30000000, 65000000, 100000000}

\* weighted failure probability of the latest day
weighted_scores(latest) ==
    LET temp == latest["smart_194"]
    IN  Min2(100, latest["smart_5"]) * 35 * ProbUnit
        + Min2(20, latest["smart_187"]) * 125 * ProbUnit
        + Min2(10, latest["smart_188"]) * 100 * ProbUnit
        + Min2(50, latest["smart_197"]) * 30 * ProbUnit
        + Min2(20, latest["smart_198"]) * 50 * ProbUnit
        + (IF temp <= 400 THEN 0
           ELSE IF temp <= 500 THEN (temp - 400) * 5 * ProbUnit
           ELSE 500 * ProbUnit)

\* _calculate_acceleration(smart_history) * 0.2: slopes of the first and
\* the last three of the latest 7 values
calculate_acceleration(smart_history) ==
    LET n == Len(smart_history)
        accel(key) ==
            LET k1 == smart_history[n - 4][key] - smart_history[n - 6][key]
                k2 == smart_history[n][key] - smart_history[n - 2][key]
            IN  IF k2 > k1 /\ k1 >= 0
                THEN Min2(2000 * ProbUnit,
                          ((2000 * (k2 - k1)) \div (k1 + 3)) * ProbUnit
                          + (((2000 * (k2 - k1)) % (k1 + 3)) * ProbUnit) \div (k1 + 3))
                ELSE 0
    IN  IF n < 7 THEN 0
        ELSE Max2(accel("smart_5"), Max2(accel("smart_187"), accel("smart_197")))

\* the failure probability _rule_based_predict computes
rule_based_probability(smart_history) ==
    Min2(10000 * ProbUnit,
         weighted_scores(smart_history[Len(smart_history)])
         + calculate_acceleration(smart_history))

\* _calculate_trend: slope of the least-squares line through the last 7
\* values of smart_5 + smart_187, as 28 * slope
calculate_trend(sequence) ==
    LET n == Len(sequence)
        y(i) == sequence[n - 7 + i]["smart_5"] + sequence[n - 7 + i]["smart_187"]
        slope28 == (y(7) - y(1)) * 3 + (y(6) - y(2)) * 2 + (y(5) - y(3))
    IN  IF n < 7 THEN "stable"
        ELSE IF slope28 < 0 - 14 THEN "improving"
        ELSE IF slope28 < 14 THEN "stable"
        ELSE IF slope28 < 56 THEN "declining"
        ELSE "rapid_decline"

\* variant: histories of 4 samples are predicted on
insufficient_below_four(smart_history) == Len(smart_history) < 4

\* len(smart_history) < 5
insufficient(smart_history) == Len(smart_history) < 5

\* _insufficient_data_response()
insufficient_data_response ==
    [failure_probability |-> 500,
     health_score |-> 95,
     risk_level |-> "Low",
     days_to_failure |-> 365,
     confidence_interval |-> [center |-> 365, lower |-> 300, upper |-> 365],
     trend |-> "stable",
     intervention_recommended |-> FALSE,
     model_version |-> None,
     note |-> "Insufficient history for accurate prediction"]

\* what the caller of predict gets when self.model.predict raises: the
\* exception, no dict
raised_error == [exception |-> "self.model.predict"]

\* the dict _tcn_predict and _rule_based_predict return for an unrounded
\* probability; failure_probability is round(.., 4) of it
engine_assessment(raw, reported, trend, recommended, version) ==
    [failure_probability |-> reported,
     health_score |-> health_score_of(ceil4(raw)),
     risk_level |-> get_risk_level(floor4(raw)),
     days_to_failure |-> probability_to_days(floor4(raw)).center,
     confidence_interval |-> probability_to_days(floor4(raw)),
     trend |-> trend,
     intervention_recommended |-> recommended,
     model_version |-> version,
     note |-> None]

\* HealthPredictionEngine.__init__ -> _load_model, in the environment found
load_model(tf_available, model_file, norm_file, self_test) ==
    LET loaded == tf_available /\ model_file = "loads"
        norm_raised == loaded /\ norm_file = "load_raises"
        tested == loaded /\ ~norm_raised
        kept == tested /\ self_test = "passes"
    IN  /\ engine_pc = "new"
        /\ engine_pc' = "ready"
        /\ model' = IF kept THEN "loaded" ELSE None
        /\ norm_params' = IF kept /\ norm_file = "loads" THEN "loaded" ELSE None
        /\ model_failed' = ~(kept /\ norm_file = "loads")
        /\ UNCHANGED <<last_prediction, predict_calls>>
        /\ UNCHANGED notPred

\* HealthPredictionEngine.predict(smart_history); inference is what
\* self.model.predict does if it is called
engine_predict(smart_history, inference) ==
    LET n == Len(smart_history)
        trend == calculate_trend(prepare_sequence(smart_history))
        use_model == model # None /\ norm_params # None
        result(raw, reported) ==
            IF use_model
            THEN engine_assessment(raw, reported, trend,
                     raw > 3000 * ProbUnit \/ trend = "rapid_decline",
                     "TCN_v1_backblaze_q3q4_2024")
            ELSE engine_assessment(raw, reported, trend,
                     raw > 3000 * ProbUnit, "rule_based_fallback")
        call(inferred, raised, raw, res) ==
            <<[entry |-> "predict", samples |-> n, inferred |-> inferred,
               raised |-> raised, prob |-> raw, result |-> res]>>
    IN  /\ engine_pc = "ready"
        /\ predict_calls < MaxPredictCalls
        /\ predict_calls' = predict_calls + 1
        /\ IF insufficient(smart_history)
           THEN /\ last_prediction' = call(FALSE, FALSE, Null, insufficient_data_response)
                /\ UNCHANGED model_failed
           ELSE IF use_model /\ inference = Raises
           THEN /\ last_prediction' = call(TRUE, TRUE, Null, raised_error)
                /\ model_failed' = TRUE
           ELSE LET raw == IF use_model THEN inference
                           ELSE rule_based_probability(smart_history)
                IN  /\ \E reported \in RoundNearest(raw, ProbUnit) :
                          last_prediction' = call(use_model, FALSE, raw, result(raw, reported))
                    /\ UNCHANGED model_failed
        /\ UNCHANGED <<engine_pc, model, norm_params>>
        /\ UNCHANGED notPred

\* heuristic scores (tenths of a point) compute_health_score reaches
HeuristicScores == {200, 500, 600, 650, 730, 799, 800, 1000}

\* round(1 / (1 + exp(-(50 - score) / 15)), 4) at those scores
logistic(score) ==
    CASE score = 200 -> 8808
      [] score = 500 -> 5000
      [] score = 600 -> 3392
      [] score = 650 -> 2689
      [] score = 730 -> 1775
      [] score = 799 -> 1199
      [] score = 800 -> 1192
      [] score = 1000 -> 344

\* models.health_model.compute_health_score on a history of 5 or more
\* samples whose weighted attribute score is heuristic_score, with the
\* model's output (None without a model), a multiple of 1e-4 here;
\* health_score is in tenths
compute_health_score(heuristic_score, ml_probability) ==
    LET raw == IF ml_probability # Null THEN ml_probability
               ELSE logistic(heuristic_score) * ProbUnit
        \* final_score in tenths, as a fraction num / den
        num == IF ml_probability # Null
               THEN 7000 * (10000 - floor4(ml_probability))
                    + 3 * heuristic_score * 10000
               ELSE heuristic_score
        den == IF ml_probability # Null THEN 10 * 10000 ELSE 1
        risk(score) == IF score >= 800 THEN "Low"
                       ELSE IF score >= 600 THEN "Medium"
                       ELSE IF score >= 400 THEN "High"
                       ELSE "Critical"
        keep == 10000 - ceil4(raw)
        base_days == Max2(5, (200 * ((keep * keep) \div 10000)) \div 10000)
        margin == Max2(3, (base_days * 15) \div 100)
    IN  /\ predict_calls < MaxPredictCalls
        /\ predict_calls' = predict_calls + 1
        /\ \E score \in RoundNearest(num, den) :
             last_prediction' =
               <<[entry |-> "compute_health_score", samples |-> 5,
                  inferred |-> ml_probability # Null, raised |-> FALSE,
                  prob |-> raw,
                  result |->
                    [failure_probability |-> raw,
                     health_score |-> score,
                     risk_level |-> risk(score),
                     days_to_failure |->
                        IF raw > 1500 * ProbUnit THEN base_days ELSE Null,
                     confidence_interval |->
                        IF raw > 1500 * ProbUnit
                        THEN [lower |-> Max2(1, base_days - margin),
                              upper |-> base_days + margin]
                        ELSE [lower |-> Null, upper |-> Null]]]>>
        /\ UNCHANGED <<engine_pc, model, norm_params, model_failed>>
        /\ UNCHANGED notPred

\* InterventionCoordinator._calculate_life_extension multiplies the
\* baseline: None * float raises TypeError
life_extension_raises(baseline_days) == baseline_days = Null

\* an engine not constructed yet and no prediction made
PredStart ==
    /\ engine_pc = "new"
    /\ model = None
    /\ norm_params = None
    /\ model_failed = FALSE
    /\ last_prediction = <<>>
    /\ predict_calls = 0

PredIdle == PredStart

PredNext ==
    \/ \E tf \in BOOLEAN, m \in {"missing", "loads", "load_raises"},
          nf \in {"missing", "loads", "load_raises"},
          st \in {"passes", "out_of_range", "raises"} :
         load_model(tf, m, nf, st)
    \/ \E h \in PredHistories, o \in TcnOutputs \cup {Raises} :
         engine_predict(h, o)
    \/ \E s \in HeuristicScores, ml \in {Null, 4000000, 12500000, 65000000} :
         compute_health_score(s, ml)

(***************************************************************************)
(* Filesystem scan (compression_engine.py, _scan_filesystem): the walk     *)
(* over the files and the heap of the largest ones.  heapq orders the      *)
(* entries (size, fpath, file_info) by size first, so the heap is kept as  *)
(* the number of entries of each size.                                     *)
(***************************************************************************)
\* sizes os.path.getsize returns: exactly 1 MiB, one byte more, and two
\* larger sizes
FileSizes == {ONE_MIB, ONE_MIB + 1, 2 * ONE_MIB, 3 * ONE_MIB}

SizesDescending == <<3 * ONE_MIB, 2 * ONE_MIB, ONE_MIB + 1, ONE_MIB>>

NoFiles == [z \in FileSizes |-> 0]

\* len(heap)
heap_len(heap) ==
    heap[ONE_MIB] + heap[ONE_MIB + 1] + heap[2 * ONE_MIB] + heap[3 * ONE_MIB]

\* heap[0][0]: the smallest size in a non-empty heap
heap_min(heap) ==
    CHOOSE z \in FileSizes :
        heap[z] > 0 /\ \A y \in FileSizes : heap[y] > 0 => z <= y

\* variant: files of exactly 1 MiB are tracked too
tracked_from_one_mib(size) == size >= ONE_MIB

\* size > 1024 * 1024
tracked(size) == size > ONE_MIB

\* heapq.heappush(top_files_heap, (size, fpath, file_info))
heappush(heap, size) == [heap EXCEPT ![size] = @ + 1]

\* heapq.heappushpop(top_files_heap, (size, fpath, file_info)) for a size
\* above the heap's smallest: the smallest entry leaves
heappushpop(heap, size) ==
    [[heap EXCEPT ![heap_min(heap)] = @ - 1] EXCEPT ![size] = @ + 1]

RECURSIVE repeat(_, _)
repeat(x, n) == IF n = 0 THEN <<>> ELSE <<x>> \o repeat(x, n - 1)

RECURSIVE sorted_from(_, _)
sorted_from(heap, i) ==
    IF i > Len(SizesDescending) THEN <<>>
    ELSE repeat(SizesDescending[i], heap[SizesDescending[i]])
         \o sorted_from(heap, i + 1)

\* sorted([item[2] for item in top_files_heap], key=size, reverse=True)
sorted_by_size(heap) == sorted_from(heap, 1)

\* _scan_filesystem is entered
scan_filesystem ==
    /\ scan_pc = "done"
    /\ scan_pc' = "walking"
    /\ scanned' = NoFiles
    /\ top_files_heap' = NoFiles
    /\ file_histogram' = <<>>
    /\ UNCHANGED notScan

\* the walk visits one more file, of this size
visit_file(size) ==
    /\ scan_pc = "walking"
    /\ heap_len(scanned) < MaxFiles
    /\ scanned' = [scanned EXCEPT ![size] = @ + 1]
    /\ top_files_heap' =
         IF ~tracked(size) THEN top_files_heap
         ELSE IF heap_len(top_files_heap) < TOP_FILES
         THEN heappush(top_files_heap, size)
         ELSE IF size > heap_min(top_files_heap)
         THEN heappushpop(top_files_heap, size)
         ELSE top_files_heap
    /\ UNCHANGED <<scan_pc, file_histogram>>
    /\ UNCHANGED notScan

\* the walk is over: the result is built
scan_returns ==
    /\ scan_pc = "walking"
    /\ scan_pc' = "done"
    /\ file_histogram' = sorted_by_size(top_files_heap)
    /\ UNCHANGED <<scanned, top_files_heap>>
    /\ UNCHANGED notScan

\* no scan made yet
ScanIdle ==
    /\ scan_pc = "done"
    /\ scanned = NoFiles
    /\ top_files_heap = NoFiles
    /\ file_histogram = <<>>

ScanNext ==
    \/ scan_filesystem
    \/ \E z \in FileSizes : visit_file(z)
    \/ scan_returns

(***************************************************************************)
(* The scan cache under threads (compression_engine.py): analyze_filesystem *)
(* holds _cache_lock while it looks the entry up and again while it stores  *)
(* the result, but not in between, while it scans; invalidate_cache clears  *)
(* the cache under the lock.  One root set (the default paths) is used.    *)
(* A step taken under the lock is one action.                              *)
(***************************************************************************)
AnalyzeThreads == {"t1", "t2"}

\* with self._cache_lock: the entry is looked up; a fresh entry is returned,
\* otherwise the lock is released and the scan begins
analyze_filesystem(t) ==
    /\ analyze_pc[t] = "idle"
    /\ IF scan_cache # <<>> /\ scan_cache[1].fresh
       THEN /\ analyze_call' = [analyze_call EXCEPT ![t] =
                  <<[began |-> invalidations, served |-> "cached",
                     result |-> scan_cache[1].result]>>]
            /\ UNCHANGED <<analyze_pc, analyze_scan, scans_started>>
       ELSE /\ scans_started < MaxScans
            /\ scans_started' = scans_started + 1
            /\ analyze_pc' = [analyze_pc EXCEPT ![t] = "scanning"]
            /\ analyze_scan' = [analyze_scan EXCEPT ![t] =
                  <<[scan |-> scans_started + 1, began |-> invalidations,
                     complete |-> FALSE]>>]
            /\ UNCHANGED analyze_call
    /\ UNCHANGED <<scan_cache, invalidations>>
    /\ UNCHANGED notFs

\* result = self._scan_filesystem(scan_paths) returns, outside the lock
scan_completes(t) ==
    /\ analyze_pc[t] = "scanning"
    /\ analyze_pc' = [analyze_pc EXCEPT ![t] = "storing"]
    /\ analyze_scan' = [analyze_scan EXCEPT ![t] =
          <<[analyze_scan[t][1] EXCEPT !.complete = TRUE]>>]
    /\ UNCHANGED <<scan_cache, analyze_call, invalidations, scans_started>>
    /\ UNCHANGED notFs

\* self._scan_cache[cache_key] = result
store_result(result) == <<[fresh |-> TRUE, result |-> result]>>

\* with self._cache_lock: the result is stored; it is returned
analyze_stores(t) ==
    /\ analyze_pc[t] = "storing"
    /\ analyze_pc' = [analyze_pc EXCEPT ![t] = "idle"]
    /\ scan_cache' = store_result(analyze_scan[t][1])
    /\ analyze_call' = [analyze_call EXCEPT ![t] =
          <<[began |-> analyze_scan[t][1].began, served |-> "scanned",
             result |-> analyze_scan[t][1]]>>]
    /\ UNCHANGED <<analyze_scan, invalidations, scans_started>>
    /\ UNCHANGED notFs

\* invalidate_cache(): with self._cache_lock: self._scan_cache.clear()
invalidate_cache ==
    /\ invalidations < MaxInvalidations
    /\ invalidations' = invalidations + 1
    /\ scan_cache' = <<>>
    /\ UNCHANGED <<analyze_pc, analyze_scan, analyze_call, scans_started>>
    /\ UNCHANGED notFs

\* CACHE_DURATION_SECONDS pass since the entry's _cached_at
cache_expires ==
    /\ scan_cache # <<>>
    /\ scan_cache[1].fresh
    /\ scan_cache' = <<[scan_cache[1] EXCEPT !.fresh = FALSE]>>
    /\ UNCHANGED <<analyze_pc, analyze_scan, analyze_call, invalidations,
                   scans_started>>
    /\ UNCHANGED notFs

\* an engine just constructed
FsIdle ==
    /\ scan_cache = <<>>
    /\ analyze_pc = [t \in AnalyzeThreads |-> "idle"]
    /\ analyze_scan = [t \in AnalyzeThreads |-> <<>>]
    /\ analyze_call = [t \in AnalyzeThreads |-> <<>>]
    /\ invalidations = 0
    /\ scans_started = 0

FsNext ==
    \/ \E t \in AnalyzeThreads : analyze_filesystem(t)
    \/ \E t \in AnalyzeThreads : scan_completes(t)
    \/ \E t \in AnalyzeThreads : analyze_stores(t)
    \/ invalidate_cache
    \/ cache_expires

(***************************************************************************)
(* The ledger under several worker processes (gunicorn.conf.py starts up   *)
(* to 4): each worker constructs its own coordinator, which loads the      *)
(* ledger file into intervention_log once; _record_intervention appends to *)
(* that list and rewrites the whole file from it.  No lock is taken.       *)
(***************************************************************************)
Workers == {"w1", "w2"}

\* InterventionCoordinator.__init__ in a worker: _load_intervention_log
coordinator_starts(w) ==
    /\ ~worker_up[w]
    /\ worker_up' = [worker_up EXCEPT ![w] = TRUE]
    /\ worker_log' = [worker_log EXCEPT ![w] = shared_ledger]
    /\ UNCHANGED <<shared_ledger, recorded>>
    /\ UNCHANGED notLedger

\* self.intervention_log.append(intervention)
append_to_log(log, record) == Append(log, record)

\* _record_intervention in worker w for a drive, then _save_intervention_log
record_intervention(w, drive_id) ==
    LET intervention == [id |-> Cardinality(recorded) + 1, worker |-> w,
                         drive_id |-> drive_id]
    IN  /\ worker_up[w]
        /\ Cardinality(recorded) < MaxRecords
        /\ worker_log' = [worker_log EXCEPT ![w] =
               append_to_log(worker_log[w], intervention)]
        /\ shared_ledger' = worker_log'[w]
        /\ recorded' = recorded \cup {intervention}
        /\ UNCHANGED worker_up
        /\ UNCHANGED notLedger

\* no worker started, an empty ledger file
LedgerIdle ==
    /\ worker_up = [w \in Workers |-> FALSE]
    /\ worker_log = [w \in Workers |-> <<>>]
    /\ shared_ledger = <<>>
    /\ recorded = {}

LedgerNext ==
    \/ \E w \in Workers : coordinator_starts(w)
    \/ \E w \in Workers, d \in Drives : record_intervention(w, d)

(***************************************************************************)
(* The history cache under threads (smart_reader.py): get_smart_history    *)
(* takes no lock.  A call reads the clock and looks the entry up, then     *)
(* enumerates the drives and builds the history, then stores and returns   *)
(* it; other threads run between these steps.  Building a history reads    *)
(* the clock again (datetime.now()), later than every earlier reading.     *)
(***************************************************************************)
ReaderThreads == {"r1", "r2"}

ReaderRequests == {<<"DRIVE_A", 5>>, <<"DRIVE_C", 30>>}

\* now = time.time(); the entry is looked up and returned if fresh
reader_looks_up(t, drive_id, days) ==
    LET key == cache_key(drive_id, days)
        n == IF reader_call[t] = <<>> THEN 1 ELSE reader_call[t][1].n + 1
        fresh == /\ history_cache[key] # <<>>
                 /\ now - history_cache[key][1].cached_at < CACHE_DURATION_SECONDS
    IN  /\ reader_pc[t] = "idle"
        /\ n <= MaxReaderCalls
        /\ IF fresh
           THEN /\ reader_call' = [reader_call EXCEPT ![t] =
                      <<[n |-> n, key |-> key, began |-> now, ended |-> now,
                         served |-> "cached", replaced |-> FALSE,
                         output |-> history_cache[key][1].history]>>]
                /\ UNCHANGED reader_pc
           ELSE /\ reader_call' = [reader_call EXCEPT ![t] =
                      <<[n |-> n, key |-> key, began |-> now, ended |-> now,
                         served |-> "pending", replaced |-> FALSE,
                         output |-> <<>>]>>]
                /\ reader_pc' = [reader_pc EXCEPT ![t] = "generating"]
        /\ UNCHANGED histVars
        /\ UNCHANGED notReader

\* drives = self.get_all_drives(); the history is built from the drive's
\* current values, or [] is returned when the drive is not listed
reader_generates(t) ==
    LET c == reader_call[t][1]
        drive_id == c.key[1]
    IN  /\ reader_pc[t] = "generating"
        /\ now < MaxTime
        /\ now' = now + 1
        /\ IF enumerated[drive_id] = Absent
           THEN /\ reader_call' = [reader_call EXCEPT ![t] =
                      <<[c EXCEPT !.served = "not_found", !.ended = now']>>]
                /\ reader_pc' = [reader_pc EXCEPT ![t] = "idle"]
           ELSE /\ reader_call' = [reader_call EXCEPT ![t] =
                      <<[c EXCEPT !.output =
                            generate_history(drive_id, enumerated[drive_id],
                                             c.key[2], now')]>>]
                /\ reader_pc' = [reader_pc EXCEPT ![t] = "storing"]
        /\ UNCHANGED <<enumerated, history_cache, last_call, predicted>>
        /\ UNCHANGED notReader

\* self._history_cache[cache_key] = (now, history)
store_history(cached_at, history) ==
    <<[cached_at |-> cached_at, history |-> history]>>

\* the history is stored under the time the call began, and returned
reader_stores(t) ==
    LET c == reader_call[t][1]
        entry == history_cache[c.key]
    IN  /\ reader_pc[t] = "storing"
        /\ history_cache' = [history_cache EXCEPT ![c.key] =
               store_history(c.began, c.output)]
        /\ reader_call' = [reader_call EXCEPT ![t] =
               <<[c EXCEPT !.served = "generated", !.ended = now,
                           !.output = history_cache'[c.key][1].history,
                           !.replaced =
                               /\ entry # <<>>
                               /\ now - entry[1].cached_at < CACHE_DURATION_SECONDS
                               /\ history_cache'[c.key] # entry]>>]
        /\ reader_pc' = [reader_pc EXCEPT ![t] = "idle"]
        /\ UNCHANGED <<now, enumerated, last_call, predicted>>
        /\ UNCHANGED notReader

\* no call in progress
ReaderIdle ==
    /\ reader_pc = [t \in ReaderThreads |-> "idle"]
    /\ reader_call = [t \in ReaderThreads |-> <<>>]

ReaderNext ==
    \/ \E t \in ReaderThreads, r \in ReaderRequests :
         reader_looks_up(t, r[1], r[2])
    \/ \E t \in ReaderThreads : reader_generates(t)
    \/ \E t \in ReaderThreads : reader_stores(t)
    \/ \E dt \in TickSet : Tick(dt)

(***************************************************************************)
(* One coordination cycle end to end (coordinator.run_cycle): the history  *)
(* get_smart_history returns for the device as the host lists it, the      *)
(* assessment predict makes of it, and the coordinator's decision, ledger  *)
(* and health files.  The clock is in whole seconds.                       *)
(***************************************************************************)
\* device ids run_cycle is called with: the ids the acquirer can list, and
\* a device path, which no strategy lists (ids are stripped of separators)
CycleIds == Drives \cup {"/dev/sda"}

\* os.path.join("data", f"health_cache_{drive_id}.json") lies in data/
\* unless the id holds a path separator
in_data_dir(drive_id) == drive_id # "/dev/sda"

\* drive["smart_values"] == {}: no attribute was read
no_attributes == [k \in FEATURE_KEYS |-> Absent]

\* what get_all_drives() has for the device when the history is built:
\* <<>> if it lists no such device, else <<its smart_values>>
CycleSnapshots == {<<>>, <<no_attributes>>, <<failing>>}

\* rng.uniform(-3.0, 3.0) of the seeded generator, in tenths of a degree
variation(drive_id, day) ==
    ((7 * day + (IF drive_id = "DRIVE_A" THEN 0 ELSE 3)) % 61) - 30

\* the loop of get_smart_history over the days and the keys of current_smart
history_of(drive_id, current_smart, days) ==
    [i \in 1..days |->
        [k \in FEATURE_KEYS |->
            IF current_smart[k] = Absent THEN Absent
            ELSE IF k = "smart_194"
            THEN current_smart[k] + variation(drive_id, days - i)
            ELSE past_val(drive_id, current_smart[k], days - i, days)]]

\* smart.get(key, 0) and latest.get("smart_194", 35) on each day
with_defaults(smart_history) ==
    [i \in 1..Len(smart_history) |->
        [k \in FEATURE_KEYS |->
            IF smart_history[i][k] # Absent THEN smart_history[i][k]
            ELSE IF k = "smart_194" THEN 350 ELSE 0]]

\* what predict(smart_history) gives its caller with the engine as it is:
\* the assessments it can return, or the exception of self.model.predict
predict_returns(smart_history, inference) ==
    LET trend == calculate_trend(prepare_sequence(smart_history))
        use_model == model # None /\ norm_params # None
        raw == IF use_model THEN inference
               ELSE rule_based_probability(smart_history)
    IN  IF insufficient(smart_history) THEN {insufficient_data_response}
        ELSE IF use_model /\ inference = Raises THEN {raised_error}
        ELSE {IF use_model
              THEN engine_assessment(raw, reported, trend,
                       raw > 3000 * ProbUnit \/ trend = "rapid_decline",
                       "TCN_v1_backblaze_q3q4_2024")
              ELSE engine_assessment(raw, reported, trend,
                       raw > 3000 * ProbUnit, "rule_based_fallback")
              : reported \in RoundNearest(raw, ProbUnit)}

\* the exception a caller of run_cycle gets instead of a status
cycle_raises(drive_id, exception) ==
    <<[kind |-> "exception", drive_id |-> drive_id, exception |-> exception]>>

\* coordinator.run_cycle(drive_id), from get_smart_history(drive_id, 30) to
\* the status.  A device path is never listed, so its history is empty, its
\* assessment is the insufficient-data one, no health file of it exists and
\* nothing is recorded before _save_current_health opens the file.
pipeline_cycle(drive_id, snapshot, inference, potential) ==
    LET key == cache_key(drive_id, SEQUENCE_LENGTH)
        cached == drive_id \in Drives /\ history_cache[key] # <<>>
        fresh == /\ cached
                 /\ now - history_cache[key][1].cached_at < CACHE_DURATION_SECONDS
        found == drive_id \in Drives /\ snapshot # <<>>
        history == IF fresh THEN history_cache[key][1].history
                   ELSE IF found
                   THEN history_of(drive_id, snapshot[1], SEQUENCE_LENGTH)
                   ELSE <<>>
    IN  /\ predict_calls < MaxCycles
        /\ predict_calls' = predict_calls + 1
        /\ UNCHANGED <<app_settings, HEALTH_DROP_THRESHOLD>>
        /\ history_cache' = IF ~fresh /\ found
                            THEN [history_cache EXCEPT ![key] =
                                     <<[cached_at |-> now, history |-> history]>>]
                            ELSE history_cache
        /\ \E prediction \in predict_returns(with_defaults(history), inference) :
             IF prediction = raised_error
             THEN /\ response' = cycle_raises(drive_id, "self.model.predict")
                  /\ UNCHANGED <<intervention_log, ledger_file, health_cache, cycle>>
             ELSE IF ~in_data_dir(drive_id)
             THEN /\ response' = cycle_raises(drive_id, "FileNotFoundError")
                  /\ UNCHANGED <<intervention_log, ledger_file, health_cache, cycle>>
             ELSE run_cycle(drive_id, prediction, potential)
        /\ UNCHANGED <<now, enumerated, last_call, predicted>>
        /\ UNCHANGED <<engine_pc, model, norm_params, model_failed,
                       last_prediction>>
        /\ UNCHANGED <<lifeVars, wrVars, acqVars, scanVars, fsVars,
                       ledgerVars, readerVars>>

\* the engine as constructed: with the model and its parameters, or without
CycleStart ==
    /\ CoordIdle
    /\ HistIdle
    /\ engine_pc = "ready"
    /\ model \in {None, "loaded"}
    /\ norm_params = model
    /\ model_failed = (model = None)
    /\ last_prediction = <<>>
    /\ predict_calls = 0

CycleNext ==
    \/ \E d \in CycleIds, s \in CycleSnapshots, o \in CycleInferences,
          c \in CoordPotentials :
         pipeline_cycle(d, s, o, c)
    \/ \E dt \in TickSet : Tick(dt)

(***************************************************************************)
(* Device listing and history side by side (main.py: GET /api/v1/drives    *)
(* passes the data_source setting as forced_mode; get_smart_history calls  *)
(* get_all_drives() with no argument).  The host is either one where a     *)
(* real strategy yields a device or one where the readers fall back to the *)
(* synthetic set; enumerated is what get_all_drives() finds on it.         *)
(***************************************************************************)
ListedIds == {"DRIVE_A", "DRIVE_B", "DRIVE_C", "_dev_sda"}

ListedKeys == {cache_key(d, SEQUENCE_LENGTH) : d \in ListedIds}

\* smart_5 of the devices get_all_drives() yields on the two hosts
HostEnumerations ==
    {[d \in ListedIds |-> IF d = "_dev_sda" THEN 15 ELSE Absent],
     [d \in ListedIds |->
        CASE d = "DRIVE_A" -> 0
          [] d = "DRIVE_B" -> 15
          [] d = "DRIVE_C" -> 87
          [] OTHER -> Absent]}

\* the list get_all_drives() returns on the host
auto_listing ==
    IF enumerated["_dev_sda"] # Absent
    THEN <<drive("_dev_sda", "none", "True", "read")>>
    ELSE get_simulated_drives

\* the list get_all_drives(forced_mode) returns on the host
listing(forced_mode) ==
    IF forced_mode = "simulated" THEN get_simulated_drives ELSE auto_listing

\* GET /api/v1/drives with data_source = forced_mode, as one step
list_drives(forced_mode) ==
    /\ acq_mode' = forced_mode
    /\ attempted' = <<>>
    /\ acq_pc' = "done"
    /\ drives_out' = <<listing(forced_mode)>>
    /\ UNCHANGED system
    /\ UNCHANGED notAcq

\* a reader with an empty cache on either host, nothing listed yet
ListedStart ==
    /\ system = "Linux"
    /\ AcqStart
    /\ enumerated \in HostEnumerations
    /\ now = 0
    /\ history_cache = [k \in ListedKeys |-> <<>>]
    /\ last_call = [k \in ListedKeys |-> <<>>]
    /\ predicted = <<>>

ListedNext ==
    \/ \E f \in ForcedModes : list_drives(f)
    \/ \E d \in ListedIds : get_smart_history(d, SEQUENCE_LENGTH)
    \/ \E dt \in TickSet : Tick(dt)

(***************************************************************************)
(* Specifications.  Each runs one part of the program and leaves the       *)
(* others as constructed.                                                  *)
(***************************************************************************)
\* every part but the named one is as constructed
IdleExcept(part) ==
    /\ IF part \in {"coordinator", "cycle"} THEN TRUE ELSE CoordIdle
    /\ IF part = "life" THEN TRUE ELSE LifeIdle
    /\ IF part = "write_reduction" THEN TRUE ELSE WrIdle
    /\ IF part \in {"acquisition", "listing"} THEN TRUE ELSE AcqIdle
    /\ IF part \in {"history", "readers", "cycle", "listing"} THEN TRUE
       ELSE HistIdle
    /\ IF part \in {"predictor", "cycle"} THEN TRUE ELSE PredIdle
    /\ IF part = "scan" THEN TRUE ELSE ScanIdle
    /\ IF part = "scan_cache" THEN TRUE ELSE FsIdle
    /\ IF part = "ledger" THEN TRUE ELSE LedgerIdle
    /\ IF part = "readers" THEN TRUE ELSE ReaderIdle

\* the coordinator behind the HTTP layer
Init == CoordInit /\ IdleExcept("coordinator")

Next ==
    \/ \E v \in HealthThresholdSet : update_settings(v)
    \/ \E r \in CoordCycles, c \in CoordPotentials :
         get_drive_status(r[1], r[2], c)
    \/ \E r \in CoordCycles, c \in CoordPotentials :
         run_simulation_cycle(r[1], r[2], c)
    \/ \E d \in Drives : get_drive_interventions(d)

Spec == Init /\ [][Next]_vars

\* the two life-extension computations called on their own
LifeInit == LifeIdle /\ IdleExcept("life")

SpecLife == LifeInit /\ [][LifeNext]_vars

\* the same two computations on baselines of zero and fewer days
SpecClamp == LifeInit /\ [][ClampNext]_vars

\* the write-reduction estimate called on its own
WrInit == WrIdle /\ IdleExcept("write_reduction")

SpecWR == WrInit /\ [][WrNext]_vars

\* get_all_drives on any host
AcqInit == system \in Systems /\ AcqStart /\ IdleExcept("acquisition")

SpecAcq == AcqInit /\ [][AcqNext]_vars

\* the drives get_all_drives lists when a run of the history cache begins
HistEnumerations ==
    {f \in [HistDrives -> {Absent, 15, 87}] :
        \A d \in HistDrives : f[d] \in Smart5Set(d)}

\* the history cache under polling, changing enumerations and predictions
HistInit == enumerated \in HistEnumerations /\ HistStart /\ IdleExcept("history")

SpecHist == HistInit /\ [][HistNext]_vars

\* the predictor: construction in any environment, then predictions
PredInit == PredStart /\ IdleExcept("predictor")

SpecPred == PredInit /\ [][PredNext]_vars

\* one scan after another
ScanInit == ScanIdle /\ IdleExcept("scan")

SpecScan == ScanInit /\ [][ScanNext]_vars

\* two threads in analyze_filesystem while the cache is invalidated
FsInit == FsIdle /\ IdleExcept("scan_cache")

SpecFs == FsInit /\ [][FsNext]_vars

\* two worker processes recording interventions in one ledger file
LedgerInit == LedgerIdle /\ IdleExcept("ledger")

SpecLedger == LedgerInit /\ [][LedgerNext]_vars

\* two threads in get_smart_history
ReaderInit ==
    /\ enumerated \in HistEnumerations /\ HistStart /\ ReaderIdle
    /\ IdleExcept("readers")

SpecReaders == ReaderInit /\ [][ReaderNext]_vars

\* whole cycles, one device after another, on any host and engine
CycleInit == CycleStart /\ IdleExcept("cycle")

SpecCycle == CycleInit /\ [][CycleNext]_vars

\* the device list and the histories of one host
ListedInit == ListedStart /\ IdleExcept("listing")

SpecListed == ListedInit /\ [][ListedNext]_vars

(***************************************************************************)
(* Claims about the coordinator (specification Spec).                      *)
(***************************************************************************)
C1Healths == {0, 30, 49, 50, 70, 95, 100}

C1Drops == {0 - 3, 0, 1, 2, 3, 4, 5, 6, 8}

\* C1: for every health h, drop d, trend t and recommendation flag r the
\* intervention predicate is true iff h < 50, or d >= 5, or t = rapid_decline,
\* or (r and d >= 2), in every reachable coordinator state.
C1_PredicateAsSpecified ==
    \A h \in C1Healths, d \in C1Drops, t \in Trends, r \in BOOLEAN :
        should_intervene(h, d, t, r)
            <=> (h < 50 \/ d >= 5 \/ t = "rapid_decline" \/ (r /\ d >= 2))

\* a step in which a run_cycle returned
CycleStep ==
    /\ response' # <<>>
    /\ response'[1].kind = "status"
    /\ (cycle' # cycle \/ response' # response
        \/ intervention_log' # intervention_log \/ health_cache' # health_cache)

\* C2: run_cycle appends a record iff the predicate fired and the compression
\* potential is >= 0.20; then exactly one record is appended and returned in
\* the status, otherwise the ledger is unchanged and the status carries no
\* intervention; the analyzer is called only when the predicate fired.
C2_RecordIffFiredAndCompressible ==
    [][CycleStep =>
        LET st == response'[1]
            cy == cycle'[1]
            fired == st.intervention_triggered
            appended == fired /\ cy.potential >= 2000
        IN  /\ cy.analyzer_called = fired
            /\ ~fired => cy.potential = NoHealth
            /\ IF appended
               THEN /\ Len(intervention_log') = Len(intervention_log) + 1
                    /\ SubSeq(intervention_log', 1, Len(intervention_log))
                         = intervention_log
                    /\ st.intervention
                         = <<intervention_log'[Len(intervention_log')]>>
                    /\ st.intervention[1].drive_id = st.drive_id
               ELSE /\ intervention_log' = intervention_log
                    /\ st.intervention = <<>>]_vars

\* C2 witness: a cycle whose predicate fired on a potential of exactly 0.20
\* has appended and returned a record
C2_Witness ==
    /\ cycle # <<>> /\ response # <<>>
    /\ response[1].kind = "status"
    /\ response[1].intervention_triggered
    /\ cycle[1].potential = 2000
    /\ response[1].intervention # <<>>

\* C3: after run_cycle(d) the persisted previous health of d is the health
\* score computed in that cycle, on every branch; the next cycle for d reads
\* that value back; the previous health of every other drive is unchanged.
C3_PreviousHealthPersisted ==
    [][CycleStep =>
        LET st == response'[1]
            cy == cycle'[1]
        IN  /\ health_cache'[cy.drive_id] = st.health.health_score
            /\ cy.previous_health = health_cache[cy.drive_id]
            /\ \A e \in Drives \ {cy.drive_id} :
                 health_cache'[e] = health_cache[e]]_vars

\* C3 witness: a triggered cycle without a record (potential below 0.20) has
\* overwritten a different stored health while the other drive has one stored
C3_Witness ==
    /\ cycle # <<>> /\ response # <<>>
    /\ response[1].kind = "status"
    /\ cycle[1].analyzer_called
    /\ response[1].intervention = <<>>
    /\ cycle[1].previous_health # NoHealth
    /\ cycle[1].previous_health # health_cache[cycle[1].drive_id]
    /\ \E e \in Drives \ {cycle[1].drive_id} : health_cache[e] # NoHealth

\* C4: the ledger is append-only: every record stays at its position with its
\* contents, at most one record is added per call and only at the end, and
\* after an append the persisted ledger equals the in-memory ledger.
C4_LedgerAppendOnly ==
    [][/\ Len(intervention_log') \in {Len(intervention_log),
                                       Len(intervention_log) + 1}
       /\ SubSeq(intervention_log', 1, Len(intervention_log)) = intervention_log
       /\ intervention_log' # intervention_log => ledger_file' = intervention_log'
       /\ intervention_log' = intervention_log => ledger_file' = ledger_file]_vars

\* C4 witness: two different records are in the ledger and a cumulative-impact
\* request has been served after them
C4_Witness ==
    /\ Len(intervention_log) = 2
    /\ intervention_log[1] # intervention_log[2]
    /\ ledger_file = intervention_log
    /\ response # <<>> /\ response[1].kind = "impact"

\* the records of one drive, in ledger order
RECURSIVE RecordsOf(_, _)
RecordsOf(log, d) ==
    IF log = <<>> THEN <<>>
    ELSE IF Head(log).drive_id = d THEN <<Head(log)>> \o RecordsOf(Tail(log), d)
    ELSE RecordsOf(Tail(log), d)

RECURSIVE TotalOf(_, _)
TotalOf(recs, field) ==
    IF recs = <<>> THEN 0
    ELSE (IF field = "days" THEN Head(recs).life_extended_days
          ELSE Head(recs).write_reduction_pct[1] * 10
               + Head(recs).write_reduction_pct[2])
         + TotalOf(Tail(recs), field)

\* C5 as stated: the reported average is the exact mean of the drive's
\* write_reduction_pct values (and the count and sum are those of its records).
C5_ExactMean ==
    response # <<>> =>
        LET ci == response[1].cumulative_impact
            mine == RecordsOf(intervention_log, response[1].drive_id)
        IN  /\ ci.total_interventions = Len(mine)
            /\ ci.total_days_extended = TotalOf(mine, "days")
            /\ IF mine = <<>> THEN ci.average_write_reduction_pct = 0
               ELSE ci.average_write_reduction_pct * Len(mine) = TotalOf(mine, "pct")

\* C5 (amended): the count is the number of the drive's records, the total is
\* the sum of their life_extended_days, and the average is their mean
\* write_reduction_pct rounded to one decimal place (both 0 without records);
\* other drives' records never contribute, and a status already counts the
\* record appended in its own cycle.
C5_CumulativeImpact ==
    response # <<>> =>
        LET ci == response[1].cumulative_impact
            mine == RecordsOf(intervention_log, response[1].drive_id)
        IN  /\ ci.total_interventions = Len(mine)
            /\ ci.total_days_extended = TotalOf(mine, "days")
            /\ ci.interventions = mine
            /\ IF mine = <<>> THEN ci.average_write_reduction_pct = 0
               ELSE 2 * Abs(ci.average_write_reduction_pct * Len(mine)
                            - TotalOf(mine, "pct")) <= Len(mine)
            /\ (response[1].kind = "status" /\ response[1].intervention # <<>>)
                 => mine[Len(mine)] = response[1].intervention[1]

\* C5 witness: a status that counts the record of its own cycle as the
\* drive's only one while the ledger also holds the other drive's record
C5_Witness ==
    /\ response # <<>>
    /\ response[1].kind = "status"
    /\ response[1].intervention # <<>>
    /\ response[1].cumulative_impact.total_interventions = 1
    /\ Len(intervention_log) = 2

(***************************************************************************)
(* Claims about the life-extension computation (specification SpecLife).   *)
(***************************************************************************)
\* b * (1 + 0.4 * r) in 1e-4 days, for b in days and r in 1e-3
ExactExtended(b, r) == b * 10000 + b * 4 * r

\* C6 as stated: both computations return extended = b * (1 + 0.4 r) and
\* gained = extended - b.
C6_ExactFormula ==
    \A i \in 1..Len(life_calls) :
        LET c == life_calls[i]
        IN  /\ c.extended_days * 1000 = ExactExtended(c.baseline_days, c.write_reduction)
            /\ c.days_gained = c.extended_days - c.baseline_days * 10

\* C6 (amended): for b >= 0 and r in [0,1] the coordinator's computation
\* returns b * (1 + 0.4 r) and b * 0.4 r each rounded to one decimal place,
\* the module-level function returns b * (1 + 0.4 r) rounded to a whole number
\* of days and gained = extended - b; gained is non-decreasing in r for fixed
\* b; b = 100, r = 0.50 gives exactly 120 and 20; b = 0 gives extended 0.
C6_LifeExtension ==
    /\ \A i \in 1..Len(life_calls) :
        LET c == life_calls[i]
            exact == ExactExtended(c.baseline_days, c.write_reduction)
        IN  /\ c.impl = "coordinator" =>
                 /\ 2 * Abs(c.extended_days * 1000 - exact) <= 1000
                 /\ 2 * Abs(c.days_gained * 1000
                            - (exact - c.baseline_days * 10000)) <= 1000
            /\ c.impl = "module" =>
                 /\ c.extended_days % 10 = 0
                 /\ 2 * Abs(c.extended_days * 1000 - exact) <= 10000
                 /\ c.days_gained = c.extended_days - c.baseline_days * 10
            /\ (c.baseline_days = 100 /\ c.write_reduction = 500) =>
                 (c.extended_days = 1200 /\ c.days_gained = 200)
            /\ c.baseline_days = 0 => (c.extended_days = 0 /\ c.days_gained = 0)
    /\ \A i, j \in 1..Len(life_calls) :
        (/\ life_calls[i].impl = life_calls[j].impl
         /\ life_calls[i].baseline_days = life_calls[j].baseline_days
         /\ life_calls[i].write_reduction <= life_calls[j].write_reduction)
            => life_calls[i].days_gained <= life_calls[j].days_gained

\* C6 witness: the coordinator's computation has answered 120 days at 0.18
\* with 128.6 / 8.6 and then 120 days at 0.5 with more
C6_Witness ==
    /\ Len(life_calls) = 2
    /\ life_calls[1] = [impl |-> "coordinator", baseline_days |-> 120,
                        write_reduction |-> 180, extended_days |-> 1286,
                        days_gained |-> 86]
    /\ life_calls[2].impl = "coordinator"
    /\ life_calls[2].baseline_days = 120
    /\ life_calls[2].write_reduction = 500
    /\ life_calls[2].days_gained = 240

(***************************************************************************)
(* Claims about calculate_write_reduction (specification SpecWR).          *)
(***************************************************************************)
\* C7: without a (valid) override the mode follows from the health score with
\* inclusive lower bounds (>= 80 normal, >= 60 conservative, >= 40 aggressive,
\* else emergency); a valid override selects that mode whatever the health;
\* the total write reduction never exceeds the mode's maximum
\* (0.20 / 0.40 / 0.60 / 0.80).
C7_ModeAndCap ==
    wr_call # <<>> =>
        LET c == wr_call[1]
            h == c.health_score_input
            valid == c.override_mode \in {"normal", "conservative",
                                          "aggressive", "emergency"}
            cap == CASE c.mode = "normal" -> 200
                     [] c.mode = "conservative" -> 400
                     [] c.mode = "aggressive" -> 600
                     [] c.mode = "emergency" -> 800
        IN  /\ valid => c.mode = c.override_mode
            /\ ~valid => c.mode = (IF h >= 80 THEN "normal"
                                   ELSE IF h >= 60 THEN "conservative"
                                   ELSE IF h >= 40 THEN "aggressive"
                                   ELSE "emergency")
            /\ c.total_write_reduction <= cap
            /\ c.max_reduction_target * 10 = cap

\* C7 witness: a call at the breakpoint 80 without override has answered
\* "normal" with the full 0.20 for a fully compressible file system
C7_Witness ==
    /\ wr_call # <<>>
    /\ wr_call[1].health_score_input = 80
    /\ wr_call[1].override_mode = None
    /\ wr_call[1].compression_potential_input = 10000
    /\ wr_call[1].mode = "normal"
    /\ wr_call[1].total_write_reduction = 200

(***************************************************************************)
(* Claims about telemetry acquisition (specification SpecAcq).             *)
(***************************************************************************)
\* C8: get_all_drives returns a non-empty device list for every mode, every
\* platform branch and every combination of acquisition failures; no step of
\* it ends anywhere but in the next strategy or in a returned list.
C8_NeverEmpty ==
    /\ acq_pc \in {"idle", "linux", "macos", "layer1", "layer2", "layer3",
                   "layer4", "done"}
    /\ acq_pc = "done" => (drives_out # <<>> /\ Len(drives_out[1]) >= 1)
    /\ acq_pc \notin {"idle", "done"} => drives_out = <<>>

\* C8 witness: on Windows all four layers failed in four different ways and
\* the call still returned devices
C8_Witness ==
    /\ system = "Windows" /\ acq_pc = "done" /\ acq_mode = "real"
    /\ Len(attempted) = 4
    /\ attempted[1].outcome = "tool_missing"
    /\ attempted[2].outcome = "nonzero_exit"
    /\ attempted[3].outcome = "malformed_output"
    /\ attempted[4].outcome = "empty_enumeration"
    /\ Len(drives_out[1]) = 3

\* the fixed order: diagnostic tool, management API, low-level I/O control,
\* basic enumeration (one tool-based strategy on Linux and macOS)
C9Order ==
    CASE system = "Windows" -> <<"smartctl", "wmi", "ctypes", "wmic_basic">>
      [] system = "Linux" -> <<"smartctl">>
      [] system = "Darwin" -> <<"diskutil">>
      [] OTHER -> <<>>

\* C9: the cascade runs its strategies strictly in the fixed order; the
\* returned list is the list of the first strategy that yielded a non-empty
\* one, no strategy runs after it, strategies that yielded nothing leave
\* nothing in the result, and the synthetic set is returned only when every
\* strategy of the cascade has yielded nothing.
C9_FirstSuccessWins ==
    /\ Len(attempted) <= Len(C9Order)
    /\ \A i \in 1..Len(attempted) : attempted[i].strategy = C9Order[i]
    /\ \A i \in 1..(Len(attempted) - 1) : attempted[i].yielded = <<>>
    /\ (acq_pc = "done" /\ attempted # <<>>) =>
          LET last == attempted[Len(attempted)]
          IN  IF last.yielded # <<>>
              THEN drives_out[1] = last.yielded
              ELSE /\ Len(attempted) = Len(C9Order)
                   /\ \A i \in 1..Len(drives_out[1]) : drives_out[1][i].is_simulated
    /\ (acq_pc = "done" /\ acq_mode # "simulated"
        /\ \E i \in 1..Len(drives_out[1]) : drives_out[1][i].is_simulated) =>
          /\ Len(attempted) = Len(C9Order)
          /\ \A i \in 1..Len(attempted) : attempted[i].yielded = <<>>
    /\ (acq_pc \notin {"idle", "done"}) =>
          \A i \in 1..Len(attempted) : attempted[i].yielded = <<>>

\* C9 witness: on Windows the tool and the management API yielded nothing,
\* the low-level layer returned a drive and the fourth layer never ran
C9_Witness ==
    /\ system = "Windows" /\ acq_pc = "done"
    /\ Len(attempted) = 3
    /\ attempted[3].strategy = "ctypes"
    /\ attempted[3].yielded # <<>>
    /\ drives_out[1] = attempted[3].yielded
    /\ ~drives_out[1][1].is_simulated

(***************************************************************************)
(* Claims about the history cache (specification SpecHist).                *)
(***************************************************************************)
\* C10 as stated: two calls for the same device and window length made less
\* than the TTL apart return identical output, and an entry that has
\* reached the TTL is never returned.
C10_SameWithinTTLApart ==
    [][\A k \in HistKeys :
        (last_call[k] # <<>> /\ last_call'[k] # last_call[k]) =>
            /\ (last_call'[k][1].at - last_call[k][1].at < 300) =>
                  last_call'[k][1].output = last_call[k][1].output
            /\ last_call'[k][1].served = "cached" =>
                  now - history_cache[k][1].cached_at < 300]_vars

\* C10 (amended): once a call has stored an entry for (d, n) at time t0,
\* every call for (d, n) at a time t with t - t0 < TTL returns exactly what
\* the calls since t0 returned, whatever happened in between (enumeration
\* changes, predict on the returned list, calls for other keys) and leaves
\* the entry alone; an entry that has reached the TTL is never returned but
\* regenerated and stored at t; a call that finds no device returns the empty
\* list and stores nothing.
C10_StableWithinEntryWindow ==
    [][\A k \in HistKeys :
        last_call'[k] # last_call[k] =>
            LET c == last_call'[k][1]
                live == /\ history_cache[k] # <<>>
                        /\ now - history_cache[k][1].cached_at < 300
            IN  /\ c.at = now
                /\ live =>
                     /\ c.served = "cached"
                     /\ history_cache'[k] = history_cache[k]
                     /\ (last_call[k] # <<>>
                         /\ last_call[k][1].at >= history_cache[k][1].cached_at)
                           => c.output = last_call[k][1].output
                /\ ~live =>
                     /\ c.served # "cached"
                     /\ c.served = "generated" =>
                          /\ history_cache'[k][1].cached_at = now
                          /\ history_cache'[k][1].history = c.output
                          /\ Len(c.output) = k[2]
                     /\ c.served = "not_found" =>
                          /\ c.output = <<>>
                          /\ history_cache'[k] = history_cache[k]
                /\ \A j \in HistKeys \ {k} : history_cache'[j] = history_cache[j]]_vars

\* C10 witness: 299 s after DRIVE_A's 5-day history was stored, with the
\* drive gone from the enumeration, a prediction made and another key
\* served, the call was answered from the cache
C10_Witness ==
    LET k == <<"DRIVE_A", 5>>
    IN  /\ now = 299
        /\ history_cache[k] # <<>>
        /\ history_cache[k][1].cached_at = 0
        /\ last_call[k] # <<>>
        /\ last_call[k][1].at = 299
        /\ last_call[k][1].served = "cached"
        /\ Len(last_call[k][1].output) = 5
        /\ enumerated["DRIVE_A"] = Absent
        /\ predicted # <<>>
        /\ last_call[<<"DRIVE_C", 30>>] # <<>>

\* the entries of a history are in chronological order: each is a day
\* later than the one before it
chronological(history) ==
    \A i \in 1..(Len(history) - 1) :
        /\ history[i].timestamp[1] = history[i + 1].timestamp[1]
        /\ history[i].timestamp[2] = history[i + 1].timestamp[2] + 1

\* C11 as stated: every get_smart_history(d, n) call, for a device the
\* acquirer lists or not, on a cache hit, a miss or after expiry, returns
\* exactly n entries in chronological order.
C11_ExactlyNEntries ==
    \A k \in HistKeys :
        last_call[k] # <<>> =>
            /\ Len(last_call[k][1].output) = k[2]
            /\ chronological(last_call[k][1].output)

(***************************************************************************)
(* Claims about the health predictor (specification SpecPred).             *)
(***************************************************************************)
\* the last call was HealthPredictionEngine.predict / any entry point, on
\* at least 5 samples, and returned
PredictReturned ==
    /\ last_prediction # <<>>
    /\ last_prediction[1].entry = "predict"
    /\ ~last_prediction[1].raised

AssessedFromFive ==
    /\ last_prediction # <<>>
    /\ last_prediction[1].samples >= 5
    /\ ~last_prediction[1].raised

\* C12: predict on fewer than 5 samples (none included) returns, without
\* raising and without running the model, the fixed insufficient-data
\* assessment (0.05, 95, Low, 365 days, stable, no intervention, with its
\* note), whatever the sample values and whether or not a model is loaded;
\* on 5 or more samples a returned assessment never carries that note.
C12_InsufficientData ==
    (last_prediction # <<>> /\ last_prediction[1].entry = "predict") =>
        LET c == last_prediction[1]
        IN  /\ c.samples < 5 =>
                /\ ~c.raised
                /\ ~c.inferred
                /\ c.result.failure_probability = 500
                /\ c.result.health_score = 95
                /\ c.result.risk_level = "Low"
                /\ c.result.days_to_failure = 365
                /\ c.result.trend = "stable"
                /\ c.result.intervention_recommended = FALSE
                /\ c.result.note = "Insufficient history for accurate prediction"
            /\ (c.samples >= 5 /\ ~c.raised) => c.result.note = None

\* C12 witness: with the model loaded and used by an earlier call, a call on
\* a single sample of a failing drive returned the fixed assessment
C12_Witness ==
    /\ model = "loaded"
    /\ norm_params = "loaded"
    /\ predict_calls >= 2
    /\ PredictReturned
    /\ last_prediction[1].samples = 1
    /\ last_prediction[1].result.health_score = 95

\* C13 as stated: in every assessment made from at least 5 samples the
\* health score is round((1 - p) * 100) clamped to [0, 100], p being the
\* assessment's failure probability, at every prediction entry point.
C13_RoundedComplement ==
    AssessedFromFive =>
        LET c == last_prediction[1]
        IN  IF c.entry = "predict"
            THEN c.result.health_score \in
                   {Max2(0, Min2(100, s)) :
                      s \in RoundNearest(10000 - c.result.failure_probability, 100)}
            ELSE c.result.health_score \in
                   {10 * Max2(0, Min2(100, s)) :
                      s \in RoundNearest(10000 * ProbUnit - c.result.failure_probability,
                                         100 * ProbUnit)}

\* C14 as stated: the risk tier is fixed by the failure probability the
\* assessment reports: Critical from 0.7, High from 0.5, Medium from 0.3,
\* Low below 0.3.
C14_TierByReportedProbability ==
    AssessedFromFive =>
        LET c == last_prediction[1]
            p == IF c.entry = "predict"
                 THEN c.result.failure_probability * ProbUnit
                 ELSE c.result.failure_probability
        IN  c.result.risk_level =
               (IF p >= 7000 * ProbUnit THEN "Critical"
                ELSE IF p >= 5000 * ProbUnit THEN "High"
                ELSE IF p >= 3000 * ProbUnit THEN "Medium"
                ELSE "Low")

\* C15 as stated: days_to_failure and its confidence band are null in every
\* assessment whose failure probability is below the minimum reporting
\* threshold (0.15) and non-null above it, and the coordinator's life
\* extension accepts a null baseline.
C15_NullBelowThreshold ==
    AssessedFromFive =>
        LET c == last_prediction[1]
            p == IF c.entry = "predict"
                 THEN c.result.failure_probability * ProbUnit
                 ELSE c.result.failure_probability
        IN  /\ p < 1500 * ProbUnit =>
                /\ c.result.days_to_failure = Null
                /\ c.result.confidence_interval.lower = Null
                /\ c.result.confidence_interval.upper = Null
            /\ p > 1500 * ProbUnit => c.result.days_to_failure # Null
            /\ c.result.days_to_failure = Null =>
                ~life_extension_raises(c.result.days_to_failure)

\* C16 as stated: once the model path has failed (at construction or by an
\* exception during inference), every predict call, the one in which
\* inference failed included, runs no inference and returns the
\* insufficient-data or a rule-based assessment, never an error.
C16_ModelPathStaysDisabled ==
    [][(/\ predict_calls' # predict_calls
        /\ last_prediction'[1].entry = "predict"
        /\ (model_failed \/ model_failed'))
       => /\ ~last_prediction'[1].raised
          /\ (model_failed => ~last_prediction'[1].inferred)
          /\ last_prediction'[1].samples >= 5 =>
               last_prediction'[1].result.model_version = "rule_based_fallback"]_vars

(***************************************************************************)
(* Claims about the filesystem scan (specification SpecScan).              *)
(***************************************************************************)
\* the number of visited files larger than 1 MiB
LargeVisited == scanned[ONE_MIB + 1] + scanned[2 * ONE_MIB] + scanned[3 * ONE_MIB]

\* how many entries of a histogram have a size
CountOf(histogram, z) == Cardinality({i \in 1..Len(histogram) : histogram[i] = z})

\* the visited files of size z that belong to the n largest above 1 MiB
AmongLargest(z, n) ==
    LET above == IF z = 3 * ONE_MIB THEN 0
                 ELSE IF z = 2 * ONE_MIB THEN scanned[3 * ONE_MIB]
                 ELSE scanned[3 * ONE_MIB] + scanned[2 * ONE_MIB]
    IN  Max2(0, Min2(scanned[z], n - above))

C18_FreshAfterInvalidate ==
    /\ scan_cache # <<>> => scan_cache[1].result.complete
    /\ \A t \in AnalyzeThreads :
          analyze_call[t] # <<>> =>
              /\ analyze_call[t][1].result.complete
              /\ analyze_call[t][1].result.began >= analyze_call[t][1].began

\* C19 as stated: every record appended by a run_cycle, in whichever
\* worker, is in the persisted ledger and stays there.
C19_NoRecordLost ==
    \A r \in recorded :
        \E i \in 1..Len(shared_ledger) : shared_ledger[i] = r

\* two finished calls ran at the same time
Overlap(a, b) == a.began <= b.ended /\ b.began <= a.ended

\* C20 as stated: the check-then-write on a history cache entry is atomic:
\* two concurrent get_smart_history calls for the same device and window,
\* made within the TTL, return the same history, and no call overwrites an
\* entry that is still fresh.
C20_AtomicCheckThenWrite ==
    \A t, u \in ReaderThreads :
        (/\ reader_call[t] # <<>> /\ reader_call[u] # <<>>
         /\ reader_pc[t] = "idle" /\ reader_pc[u] = "idle")
        => LET a == reader_call[t][1]
               b == reader_call[u][1]
           IN  /\ ~a.replaced
               /\ (/\ a.key = b.key
                   /\ Overlap(a, b)
                   /\ a.ended - b.began < 300 /\ b.ended - a.began < 300
                   /\ a.served # "not_found" /\ b.served # "not_found")
                  => a.output = b.output

(***************************************************************************)
(* Claims about whole cycles (specification SpecCycle).                    *)
(***************************************************************************)
\* C21: every run_cycle(d) call completes and returns a status that holds a
\* health assessment, for every device id and whatever telemetry there is
\* (device not listed, no attributes in the snapshot, no previous health).
C21_AlwaysAStatus ==
    \A i \in 1..Len(response) :
        /\ response[i].kind = "status"
        /\ response[i].health.health_score \in 0..100

\* C26: in every run_cycle the reported health drop is the stored previous
\* health minus the current health whenever a previous value is stored for
\* the device (a stored 0 included, negative when health improved), and 0
\* only when none is stored.
C26_DropFromStoredHealth ==
    (response # <<>> /\ response[1].kind = "status") =>
        LET c == cycle[1]
        IN  response[1].health_drop_detected =
                IF c.previous_health # NoHealth
                THEN c.previous_health - c.current_health
                ELSE 0

\* C29: every record in the intervention ledger has an id distinct from the
\* id of every other record, records appended for different devices in quick
\* succession included.
C29_DistinctIds ==
    \A i, j \in 1..Len(intervention_log) :
        i # j => intervention_log[i].id # intervention_log[j].id

(***************************************************************************)
(* Claims about the write-reduction estimate (specification SpecWR).       *)
(***************************************************************************)
\* C22: an unknown mode is rejected and never silently coerced: a call of
\* calculate_write_reduction whose override is given and is not one of
\* normal / conservative / aggressive / emergency returns no estimate made
\* in the health-derived mode.
C22_UnknownModeRejected ==
    \A i \in 1..Len(wr_call) :
        LET call == wr_call[i]
        IN  call.override_mode \notin Modes \cup {None}
            => call.mode # select_mode(call.health_score_input, None)

(***************************************************************************)
(* Claims about the life-extension computation on baselines that are not   *)
(* positive (specification SpecClamp).                                     *)
(***************************************************************************)
\* C23: for every baseline that is zero or negative and every
\* write-reduction rate the life-extension computation yields zero days
\* gained, never a negative or a positive gain.
C23_ZeroGainWithoutBaseline ==
    \A i \in 1..Len(life_calls) :
        life_calls[i].baseline_days <= 0 => life_calls[i].days_gained = 0

(***************************************************************************)
(* Claims about the device records (specification SpecAcq).                *)
(***************************************************************************)
\* C24: in every device record smart_passed is pass, fail or unknown, and a
\* strategy that obtains no status (the low-level I/O path, the basic
\* enumeration) reports unknown, never pass.
C24_UnknownWithoutStatus ==
    \A i \in 1..Len(drives_out) : \A j \in 1..Len(drives_out[i]) :
        LET d == drives_out[i][j]
        IN  /\ d.smart_passed \in {"True", "False", "None"}
            /\ d.source \in {"ctypes_deviceiocontrol", "wmic_basic"}
                 => d.smart_passed = "None"

\* the strategies of the current call that yielded devices
Yielding == {i \in 1..Len(attempted) : attempted[i].yielded # <<>>}

\* C25: every record get_all_drives returns is labelled synthetic
\* (is_simulated) if and only if it comes from the synthetic fallback set: a
\* list a real strategy yielded is returned as yielded with no record
\* labelled synthetic, merged or default-filled records included; a list
\* returned when no strategy yielded is all synthetic; no list mixes the two.
C25_SyntheticIffFallback ==
    acq_pc = "done" =>
        LET out == drives_out[1]
        IN  /\ \A i \in Yielding :
                 /\ out = attempted[i].yielded
                 /\ \A j \in 1..Len(out) : ~out[j].is_simulated
            /\ Yielding = {} =>
                 /\ out = get_simulated_drives
                 /\ \A j \in 1..Len(out) : out[j].is_simulated
            /\ \A j, k \in 1..Len(out) : out[j].is_simulated = out[k].is_simulated

\* C25 witness: on Windows three layers yielded nothing and the basic
\* enumeration returned a device filled with the default attributes; it is
\* labelled real
C25_Witness ==
    /\ system = "Windows" /\ acq_pc = "done"
    /\ Len(attempted) = 4
    /\ Yielding = {4}
    /\ drives_out[1][1].source = "wmic_basic"
    /\ drives_out[1][1].smart_values = "default"
    /\ ~drives_out[1][1].is_simulated

(***************************************************************************)
(* Claims about the recorded trigger reason (specification Spec).          *)
(***************************************************************************)
\* the clauses of the first three branches of the predicate
BranchClauses ==
    {"Health critical", "Health dropped", "Rapid health decline detected"}

\* C27: the trigger reason of a recorded intervention is built from exactly
\* the predicate branches that fired in that cycle: health < 50, drop at or
\* above the drop threshold and rapid decline each contribute their clause
\* when and only when they fired, a further clause stands for the model's
\* recommendation with drop >= 2 when and only when that branch fired, and
\* no clause stands for a condition that is not a branch (a declining trend).
C27_ReasonFromFiredBranches ==
    (/\ response # <<>>
     /\ response[1].kind = "status"
     /\ response[1].intervention # <<>>) =>
        LET reason == response[1].intervention[1].reason
            health == response[1].health.health_score
            drop == response[1].health_drop_detected
            trend == response[1].health.trend
            recommended == response[1].health.intervention_recommended
        IN  /\ "Health critical" \in reason <=> health < 50
            /\ "Health dropped" \in reason <=> drop * 10 >= HEALTH_DROP_THRESHOLD
            /\ "Rapid health decline detected" \in reason
                 <=> trend = "rapid_decline"
            /\ reason \ BranchClauses # {} <=> (recommended /\ drop >= 2)
            /\ "Consistent health decline trend" \notin reason

(***************************************************************************)
(* Claims about the confidence band (specification SpecPred).              *)
(***************************************************************************)
\* C28: for every assessment predict returns with a days-to-failure centre
\* c the confidence band is symmetric around c, with
\* c - lower = upper - c = max(3, 20% of c); the insufficient-data
\* assessment included.
C28_SymmetricBand ==
    PredictReturned =>
        LET band == last_prediction[1].result.confidence_interval
            c == last_prediction[1].result.days_to_failure
        IN  /\ band.center = c
            /\ c - band.lower = band.upper - c
            /\ 5 * (band.upper - c) = Max2(15, c)

(***************************************************************************)
(* Claims about listing and history (specification SpecListed).            *)
(***************************************************************************)
\* a device of the returned list whose history has been asked for
AskedFor(j) ==
    last_call[cache_key(drives_out[1][j].drive_id, SEQUENCE_LENGTH)] # <<>>

\* C30: device listing and history agree on the device set: for every mode
\* and every device get_all_drives(mode) returned, get_smart_history for its
\* id returns a non-empty history, never the empty "not found" one.
C30_ListedDeviceHasHistory ==
    drives_out # <<>> =>
        \A j \in 1..Len(drives_out[1]) :
            AskedFor(j) =>
                LET call == last_call[cache_key(drives_out[1][j].drive_id,
                                                SEQUENCE_LENGTH)][1]
                IN  /\ call.served # "not_found"
                    /\ Len(call.output) = SEQUENCE_LENGTH

====
